---- MODULE Spec2Model ----
(***************************************************************************)
(* Incremental, viewport-aware syntax highlighting engine of the editor:   *)
(* the per-document HighlightingState (token cache, validity hashes, dirty *)
(* set, viewport, background queue, in-progress set), the                  *)
(* HighlightingService that fills the cache, and the change notifier the   *)
(* text buffer calls after every edit.                                     *)
(*                                                                         *)
(* The document state and the service are records; every method of the     *)
(* source is an operator from the record before the call to the record     *)
(* after it, so that a handler that calls other methods is the composition *)
(* of their operators.                                                     *)
(***************************************************************************)
EXTENDS Integers, Sequences, FiniteSets, TLC

\* ------------------------------------------------------------------ bounds

\* Line numbers of the model are 0..MaxLine.
MaxLine == 2

\* Largest number of lines one insert or delete adds or removes.
MaxDelta == 2

\* A behaviour makes at most MaxCalls calls into the engine (its counters,
\* and the number of edits of a session, are unbounded in the program).
MaxCalls == 3

\* Largest number of lines one edit of the buffer adds or removes.
MaxEdit == 1

Lines == 0..MaxLine

\* Line contents: byte strings over the alphabet {"f", "x"}; the empty line,
\* a line that is one keyword, and a keyword followed by plain text.
Contents == {<<>>, <<"f">>, <<"f", "x">>}

\* Option<String>: None, and Some(line).
NoContent == <<>>

Some(line) == <<line>>

\* Batch sizes and lookahead distances a state is configured with.
BatchSizes == {1, 2}

Lookaheads == {1, 2}

\* Option<(usize, usize)>::None
NoViewport == <<>>

\* ------------------------------------------------------- sequences helpers

\* lo..hi as a Rust half-open range lo..hi, in ascending order.
RangeSeq(lo, hi) ==
    IF hi > lo THEN [i \in 1..(hi - lo) |-> lo + i - 1] ELSE <<>>

SeqToSet(s) == {s[i] : i \in 1..Len(s)}

Min(a, b) == IF a < b THEN a ELSE b

Max(a, b) == IF a > b THEN a ELSE b

\* usize::saturating_sub
saturating_sub(a, b) == IF a > b THEN a - b ELSE 0

\* usize::abs_diff
abs_diff(a, b) == IF a > b THEN a - b ELSE b - a

\* ------------------------------------------------------------- TokenInfo

TokenInfo(text, kind, start_offset, end_offset) ==
    [text |-> text, kind |-> kind, start_offset |-> start_offset,
     end_offset |-> end_offset]

\* kind: None
NoKind == "none"

plain_text(text, start_offset, end_offset) ==
    TokenInfo(text, NoKind, start_offset, end_offset)

\* The single plain span highlight_line falls back to.
\* The fallback of highlight_line returning no span at all.
plain_line_empty(line) == <<>>

plain_line(line) == <<plain_text(line, 0, Len(line))>>

\* The tokenizer backend (highlighter.run, highlighter.line): a black box that
\* splits a line into (text, kind) tokens whose texts concatenate to the line.
\* Here: every byte is a token, "f" a keyword and anything else plain.
BackendTokens(line) ==
    [i \in 1..Len(line) |->
        [text |-> <<line[i]>>,
         kind |-> IF line[i] = "f" THEN "keyword" ELSE NoKind]]

\* SyntaxHighlighter::highlight_line: the backend's tokens of the one-line
\* document, each with the running byte offset; an empty line gives no token.
RECURSIVE adapter_tokens(_, _, _)
adapter_tokens(toks, i, current_offset) ==
    IF i > Len(toks) THEN <<>>
    ELSE LET start == current_offset
             end == start + Len(toks[i].text)
         IN  <<TokenInfo(toks[i].text, toks[i].kind, start, end)>>
             \o adapter_tokens(toks, i + 1, end)

\* SyntaxHighlighter::highlight_line starting its running offset at 1.
adapter_highlight_line_from_one(line) ==
    IF line = <<>> THEN <<>> ELSE adapter_tokens(BackendTokens(line), 1, 1)

\* SyntaxHighlighter::highlight_line without the early return for an empty
\* line, the empty line going to the fallback span instead.
adapter_highlight_line_no_empty(line) ==
    IF line = <<>> THEN <<plain_text(line, 0, 0)>>
    ELSE adapter_tokens(BackendTokens(line), 1, 0)

adapter_highlight_line(line) ==
    IF line = <<>> THEN <<>> ELSE adapter_tokens(BackendTokens(line), 1, 0)

\* Byte values of the alphabet.
ByteOf(c) == IF c = "f" THEN 102 ELSE 120

\* HighlightingService::calculate_line_hash: a deterministic function of the
\* line's bytes (the std hasher fed the bytes and the 0xff end marker), here a
\* polynomial fold, which is collision-free on Contents.
RECURSIVE hash_fold(_, _, _)
hash_fold(line, i, h) ==
    IF i > Len(line) THEN h * 257 + 255
    ELSE hash_fold(line, i + 1, h * 257 + ByteOf(line[i]))

calculate_line_hash(line) == hash_fold(line, 1, 7)

\* ------------------------------------------------------ HighlightingMetrics

metrics_default ==
    [total_time |-> 0, lines_highlighted |-> 0, tokens_generated |-> 0,
     avg_time_per_line |-> 0, max_line_time |-> 0,
     cache_hits |-> 0, cache_misses |-> 0]

\* record_line_highlight storing the call's token count instead of adding it.
record_line_highlight_overwriting(m, duration, token_count) ==
    [m EXCEPT !.total_time = @ + duration,
              !.lines_highlighted = @ + 1,
              !.tokens_generated = token_count,
              !.avg_time_per_line = (m.total_time + duration) \div (m.lines_highlighted + 1),
              !.max_line_time = IF duration > @ THEN duration ELSE @]

record_line_highlight(m, duration, token_count) ==
    [m EXCEPT !.total_time = @ + duration,
              !.lines_highlighted = @ + 1,
              !.tokens_generated = @ + token_count,
              !.avg_time_per_line = (m.total_time + duration) \div (m.lines_highlighted + 1),
              !.max_line_time = IF duration > @ THEN duration ELSE @]

\* HighlightingMetrics::reset
reset(m) == metrics_default

\* record_cache_hit counting on the wrong counter.
record_cache_hit_as_miss(m) == [m EXCEPT !.cache_misses = @ + 1]

record_cache_hit(m) == [m EXCEPT !.cache_hits = @ + 1]

record_cache_miss(m) == [m EXCEPT !.cache_misses = @ + 1]

\* ------------------------------------------------------- HighlightingState

\* HighlightingState::new, then set_background_batch_size and
\* set_background_lookahead.
new_state(batch_size, lookahead) ==
    [enabled |-> TRUE,
     metrics |-> metrics_default,
     token_cache |-> <<>>,
     cache_validity |-> <<>>,
     dirty_lines |-> {},
     needs_full_rehighlight |-> FALSE,
     viewport |-> NoViewport,
     background_queue |-> <<>>,
     background_in_progress |-> {},
     background_batch_size |-> batch_size,
     background_lookahead |-> lookahead]

\* HashMap::remove / HashMap::insert on a map held as a function.
\* HighlightingState::disabled, with the same two settings.
disabled_state(batch_size, lookahead) ==
    [new_state(batch_size, lookahead) EXCEPT !.enabled = FALSE]

map_remove(m, k) == [j \in (DOMAIN m) \ {k} |-> m[j]]

map_insert(m, k, v) == [j \in (DOMAIN m) \cup {k} |-> IF j = k THEN v ELSE m[j]]

\* has_cached_tokens without the comparison of the stored hash: any entry at
\* the line counts as valid.
has_cached_tokens_any_hash(st, line_number, content_hash) ==
    /\ line_number \in DOMAIN st.cache_validity
    /\ line_number \in DOMAIN st.token_cache

has_cached_tokens(st, line_number, content_hash) ==
    /\ line_number \in DOMAIN st.cache_validity
    /\ st.cache_validity[line_number] = content_hash
    /\ line_number \in DOMAIN st.token_cache

\* cache_tokens taking the line out of the dirty set as well.
cache_tokens_clearing_dirty(st, line_number, content_hash, tokens) ==
    [st EXCEPT !.token_cache = map_insert(@, line_number, tokens),
               !.cache_validity = map_insert(@, line_number, content_hash),
               !.dirty_lines = @ \ {line_number}]

cache_tokens(st, line_number, content_hash, tokens) ==
    [st EXCEPT !.token_cache = map_insert(@, line_number, tokens),
               !.cache_validity = map_insert(@, line_number, content_hash)]

\* invalidate_line_cache dropping the spans and leaving the hash behind.
invalidate_line_cache_tokens_only(st, line_number) ==
    [st EXCEPT !.token_cache = map_remove(@, line_number)]

invalidate_line_cache(st, line_number) ==
    [st EXCEPT !.token_cache = map_remove(@, line_number),
               !.cache_validity = map_remove(@, line_number)]

RECURSIVE invalidate_line_range_cache(_, _, _)
invalidate_line_range_cache(st, start_line, end_line) ==
    IF start_line > end_line THEN st
    ELSE invalidate_line_range_cache(
             invalidate_line_cache(st, start_line), start_line + 1, end_line)

clear_cache(st) == [st EXCEPT !.token_cache = <<>>, !.cache_validity = <<>>]

mark_line_dirty(st, line_number) ==
    invalidate_line_cache(
        [st EXCEPT !.dirty_lines = @ \cup {line_number}], line_number)

mark_lines_dirty(st, start_line, end_line) ==
    invalidate_line_range_cache(
        [st EXCEPT !.dirty_lines = @ \cup (start_line..end_line)],
        start_line, end_line)

mark_document_dirty(st) ==
    [clear_cache(st) EXCEPT !.needs_full_rehighlight = TRUE,
                            !.dirty_lines = {}]

is_line_dirty(st, line_number) ==
    st.needs_full_rehighlight \/ line_number \in st.dirty_lines

has_valid_cache(st, line_number) == line_number \in DOMAIN st.token_cache

\* Stable sort of (distance, line) pairs by distance (Vec::sort_by_key): x goes
\* after every element of the sorted rest with a smaller key, before the others.
insert_by_key(x, sorted) ==
    LET smaller == SelectSeq(sorted, LAMBDA y : y[1] < x[1])
        others == SelectSeq(sorted, LAMBDA y : y[1] >= x[1])
    IN  smaller \o <<x>> \o others

\* The candidates left in the order they were collected in.
sort_by_key_unsorted(candidates) == candidates

RECURSIVE sort_by_key(_)
sort_by_key(candidates) ==
    IF candidates = <<>> THEN <<>>
    ELSE insert_by_key(Head(candidates), sort_by_key(Tail(candidates)))

\* The admission test without the look at the cache.
is_candidate_ignoring_cache(st, line) == line \notin st.background_in_progress

\* A line is a candidate when it has no cache entry and is not in progress.
is_candidate(st, line) ==
    ~has_valid_cache(st, line) /\ line \notin st.background_in_progress

rebuild_background_queue(st) ==
    IF st.viewport = NoViewport THEN [st EXCEPT !.background_queue = <<>>]
    ELSE
      LET start_line == st.viewport[1]
          end_line == st.viewport[2]
          background_start == saturating_sub(start_line, st.background_lookahead)
          background_end == end_line + st.background_lookahead
          above == SelectSeq(RangeSeq(background_start, start_line),
                             LAMBDA line : is_candidate(st, line))
          below == SelectSeq(RangeSeq(end_line, background_end),
                             LAMBDA line : is_candidate(st, line))
          candidates ==
              [i \in 1..Len(above) |-> <<start_line - above[i], above[i]>>]
              \o [i \in 1..Len(below) |-> <<below[i] - end_line + 1, below[i]>>]
          sorted == sort_by_key(candidates)
      IN  [st EXCEPT !.background_queue = [i \in 1..Len(sorted) |-> sorted[i][2]]]

\* update_viewport keeping the old viewport for a move of exactly 5 lines too.
update_viewport_within_five(st, start_line, end_line) ==
    IF /\ st.viewport # NoViewport
       /\ abs_diff(start_line, st.viewport[1]) <= 5
       /\ abs_diff(end_line, st.viewport[2]) <= 5
    THEN st
    ELSE rebuild_background_queue(
             [st EXCEPT !.viewport = <<start_line, end_line>>])

\* update_viewport keeping the old viewport whenever the first line moved by
\* less than 5 lines, wherever the last line went.
update_viewport_by_start(st, start_line, end_line) ==
    IF /\ st.viewport # NoViewport
       /\ abs_diff(start_line, st.viewport[1]) < 5
    THEN st
    ELSE rebuild_background_queue(
             [st EXCEPT !.viewport = <<start_line, end_line>>])

update_viewport(st, start_line, end_line) ==
    IF /\ st.viewport # NoViewport
       /\ abs_diff(start_line, st.viewport[1]) < 5
       /\ abs_diff(end_line, st.viewport[2]) < 5
    THEN st
    ELSE rebuild_background_queue(
             [st EXCEPT !.viewport = <<start_line, end_line>>])

\* The batch taken without the limit of the batch size: the whole queue.
background_batch_whole(st) == st.background_queue

\* The lines get_background_batch returns.
background_batch(st) ==
    SubSeq(st.background_queue, 1,
           Min(st.background_batch_size, Len(st.background_queue)))

\* get_background_batch putting the lines it returns back at the end of the
\* queue.
get_background_batch_requeued(st) ==
    LET batch == background_batch(st)
    IN  [st EXCEPT !.background_queue =
                       SubSeq(@, Len(batch) + 1, Len(st.background_queue)) \o batch,
                   !.background_in_progress = @ \cup SeqToSet(batch)]

\* The state get_background_batch leaves.
get_background_batch(st) ==
    LET batch == background_batch(st)
    IN  [st EXCEPT !.background_queue =
                       SubSeq(@, Len(batch) + 1, Len(st.background_queue)),
                   !.background_in_progress = @ \cup SeqToSet(batch)]

\* complete_background_line leaving the line in the in-progress set.
complete_background_line_kept(st, line_number) == st

complete_background_line(st, line_number) ==
    [st EXCEPT !.background_in_progress = @ \ {line_number}]

has_background_work(st) == st.background_queue # <<>>

set_background_batch_size(st, size) ==
    [st EXCEPT !.background_batch_size = Min(Max(size, 1), 50)]

\* set_background_lookahead storing the distance and leaving the queue as it
\* is.
set_background_lookahead_stored(st, distance) ==
    [st EXCEPT !.background_lookahead = Min(distance, 200)]

set_background_lookahead(st, distance) ==
    LET st1 == [st EXCEPT !.background_lookahead = Min(distance, 200)]
    IN  IF st1.viewport # NoViewport THEN rebuild_background_queue(st1) ELSE st1

\* A map rebuilt under a key transform that is one-to-one on the kept keys.
rekey_map(m, kept, to) ==
    [j \in {to[k] : k \in kept} |-> m[CHOOSE k \in kept : to[k] = j]]

\* handle_text_insert shifting only the entries strictly below start_line.
handle_text_insert_after(st, start_line, lines_added) ==
    IF lines_added = 0 THEN st
    ELSE
      LET to(k) == IF k > start_line THEN k + lines_added ELSE k
          st1 == [st EXCEPT
                    !.token_cache = rekey_map(@, DOMAIN @, [k \in DOMAIN @ |-> to(k)]),
                    !.cache_validity = rekey_map(@, DOMAIN @, [k \in DOMAIN @ |-> to(k)]),
                    !.dirty_lines = {to(k) : k \in @}
                        \cup (start_line..(start_line + lines_added - 1))]
      IN  IF st1.viewport # NoViewport THEN rebuild_background_queue(st1) ELSE st1

\* handle_text_insert without the early return for lines_added = 0.
handle_text_insert_always(st, start_line, lines_added) ==
    LET to(k) == IF k >= start_line THEN k + lines_added ELSE k
        st1 == [st EXCEPT
                  !.token_cache = rekey_map(@, DOMAIN @, [k \in DOMAIN @ |-> to(k)]),
                  !.cache_validity = rekey_map(@, DOMAIN @, [k \in DOMAIN @ |-> to(k)]),
                  !.dirty_lines = {to(k) : k \in @}
                      \cup (start_line..(start_line + lines_added - 1))]
    IN  IF st1.viewport # NoViewport THEN rebuild_background_queue(st1) ELSE st1

\* handle_text_insert leaving the dirty lines below start_line where they are.
handle_text_insert_dirty_unshifted(st, start_line, lines_added) ==
    IF lines_added = 0 THEN st
    ELSE
      LET to(k) == IF k >= start_line THEN k + lines_added ELSE k
          st1 == [st EXCEPT
                    !.token_cache = rekey_map(@, DOMAIN @, [k \in DOMAIN @ |-> to(k)]),
                    !.cache_validity = rekey_map(@, DOMAIN @, [k \in DOMAIN @ |-> to(k)]),
                    !.dirty_lines = @ \cup (start_line..(start_line + lines_added - 1))]
      IN  IF st1.viewport # NoViewport THEN rebuild_background_queue(st1) ELSE st1

handle_text_insert(st, start_line, lines_added) ==
    IF lines_added = 0 THEN st
    ELSE
      LET to(k) == IF k >= start_line THEN k + lines_added ELSE k
          st1 == [st EXCEPT
                    !.token_cache = rekey_map(@, DOMAIN @, [k \in DOMAIN @ |-> to(k)]),
                    !.cache_validity = rekey_map(@, DOMAIN @, [k \in DOMAIN @ |-> to(k)]),
                    !.dirty_lines = {to(k) : k \in @}
                        \cup (start_line..(start_line + lines_added - 1))]
      IN  IF st1.viewport # NoViewport THEN rebuild_background_queue(st1) ELSE st1

\* handle_text_delete dropping the deleted lines' entries without moving the
\* entries below them.
handle_text_delete_unshifted(st, start_line, lines_deleted) ==
    IF lines_deleted = 0 THEN st
    ELSE
      LET keep(k) == k < start_line \/ k >= start_line + lines_deleted
          st1 == [st EXCEPT
                    !.token_cache = [k \in {j \in DOMAIN @ : keep(j)} |-> @[k]],
                    !.cache_validity = [k \in {j \in DOMAIN @ : keep(j)} |-> @[k]],
                    !.dirty_lines = {d \in @ : keep(d)} \cup {start_line},
                    !.background_in_progress = {l \in @ : keep(l)}]
      IN  IF st1.viewport # NoViewport THEN rebuild_background_queue(st1) ELSE st1

\* handle_text_delete keeping the entry of the last deleted line: the deleted
\* range is taken one line short.
handle_text_delete_short(st, start_line, lines_deleted) ==
    IF lines_deleted = 0 THEN st
    ELSE
      LET to(k) == IF k < start_line THEN k ELSE k - (lines_deleted - 1)
          keep(k) == k < start_line \/ k >= start_line + lines_deleted - 1
          st1 == [st EXCEPT
                    !.token_cache = rekey_map(@, {k \in DOMAIN @ : keep(k)},
                                             [k \in DOMAIN @ |-> to(k)]),
                    !.cache_validity = rekey_map(@, {k \in DOMAIN @ : keep(k)},
                                             [k \in DOMAIN @ |-> to(k)]),
                    !.dirty_lines = {to(k) : k \in {d \in @ : keep(d)}}
                        \cup {start_line},
                    !.background_in_progress = {l \in @ : keep(l)}]
      IN  IF st1.viewport # NoViewport THEN rebuild_background_queue(st1) ELSE st1

\* handle_text_delete moving the in-progress lines below the deleted range up
\* with the cache entries.
handle_text_delete_in_progress_shifted(st, start_line, lines_deleted) ==
    IF lines_deleted = 0 THEN st
    ELSE
      LET to(k) == IF k < start_line THEN k ELSE k - lines_deleted
          keep(k) == k < start_line \/ k >= start_line + lines_deleted
          st1 == [st EXCEPT
                    !.token_cache = rekey_map(@, {k \in DOMAIN @ : keep(k)},
                                             [k \in DOMAIN @ |-> to(k)]),
                    !.cache_validity = rekey_map(@, {k \in DOMAIN @ : keep(k)},
                                             [k \in DOMAIN @ |-> to(k)]),
                    !.dirty_lines = {to(k) : k \in {d \in @ : keep(d)}}
                        \cup {start_line},
                    !.background_in_progress = {to(l) : l \in {j \in @ : keep(j)}}]
      IN  IF st1.viewport # NoViewport THEN rebuild_background_queue(st1) ELSE st1

handle_text_delete(st, start_line, lines_deleted) ==
    IF lines_deleted = 0 THEN st
    ELSE
      LET to(k) == IF k < start_line THEN k ELSE k - lines_deleted
          keep(k) == k < start_line \/ k >= start_line + lines_deleted
          st1 == [st EXCEPT
                    !.token_cache = rekey_map(@, {k \in DOMAIN @ : keep(k)},
                                             [k \in DOMAIN @ |-> to(k)]),
                    !.cache_validity = rekey_map(@, {k \in DOMAIN @ : keep(k)},
                                             [k \in DOMAIN @ |-> to(k)]),
                    !.dirty_lines = {to(k) : k \in {d \in @ : keep(d)}}
                        \cup {start_line},
                    !.background_in_progress = {l \in @ : keep(l)}]
      IN  IF st1.viewport # NoViewport THEN rebuild_background_queue(st1) ELSE st1

\* ----------------------------------------------------- HighlightingService

\* line_timeout of HighlightingService::new, in milliseconds.
DefaultLineTimeout == 50

\* max_line_length of HighlightingService::new, in bytes.
DefaultMaxLineLength == 10000

\* HighlightingService::new
new_service ==
    [enabled |-> TRUE,
     global_metrics |-> metrics_default,
     line_timeout |-> DefaultLineTimeout,
     max_line_length |-> DefaultMaxLineLength]

\* The length test refusing a line of exactly max_line_length bytes.
exceeds_max_line_length_inclusive(svc, line) == Len(line) >= svc.max_line_length

\* The deadline test never failing.
exceeds_line_timeout_never(svc, duration) == FALSE

\* The deadline test failing a call that took exactly line_timeout.
exceeds_line_timeout_or_equal(svc, duration) == duration >= svc.line_timeout

\* The length test of highlight_line: the line is over the length budget.
exceeds_max_line_length(svc, line) == Len(line) > svc.max_line_length

\* The deadline test of highlight_line, made after the tokenize call returned.
exceeds_line_timeout(svc, duration) == duration > svc.line_timeout

\* HighlightingService::highlight_line: the spans returned and the state and
\* the service after the call; duration is what the tokenize call measured.
highlight_line(svc, st, line, line_number, duration) ==
    IF ~st.enabled \/ ~svc.enabled
    THEN [tokens |-> plain_line(line), state |-> st, service |-> svc]
    ELSE IF exceeds_max_line_length(svc, line)
    THEN [tokens |-> plain_line(line), state |-> st, service |-> svc]
    ELSE
      LET content_hash == calculate_line_hash(line)
      IN  IF has_cached_tokens(st, line_number, content_hash)
          THEN [tokens |-> st.token_cache[line_number],
                state |-> [st EXCEPT !.metrics = record_cache_hit(@)],
                service |-> svc]
          ELSE
            LET st1 == [st EXCEPT !.metrics = record_cache_miss(@)]
                tokens == adapter_highlight_line(line)
            IN  IF exceeds_line_timeout(svc, duration)
                THEN [tokens |-> plain_line(line), state |-> st1, service |-> svc]
                ELSE
                  LET st2 == [st1 EXCEPT !.metrics =
                                  record_line_highlight(@, duration, Len(tokens))]
                      svc2 == [svc EXCEPT !.global_metrics =
                                  record_line_highlight(@, duration, Len(tokens))]
                  IN  [tokens |-> tokens,
                       state |-> cache_tokens(st2, line_number, content_hash, tokens),
                       service |-> svc2]

set_enabled(svc, enabled) == [svc EXCEPT !.enabled = enabled]

set_line_timeout(svc, timeout) == [svc EXCEPT !.line_timeout = timeout]

set_max_line_length(svc, max_length) == [svc EXCEPT !.max_line_length = max_length]

\* HighlightingService::reset_metrics
reset_metrics(svc) == [svc EXCEPT !.global_metrics = reset(@)]

\* The pass counting every line it tokenized, in time or not.
background_line_counting_all(svc, st, line_number, line_content, duration) ==
    LET tokenized ==
          /\ line_content # NoContent
          /\ Len(line_content[1]) <= svc.max_line_length
          /\ ~has_cached_tokens(st, line_number, calculate_line_hash(line_content[1]))
        cached == tokenized /\ duration <= svc.line_timeout \div 2
        st1 == IF cached
               THEN cache_tokens(st, line_number, calculate_line_hash(line_content[1]),
                                 adapter_highlight_line(line_content[1]))
               ELSE st
    IN  [count |-> IF tokenized THEN 1 ELSE 0,
         state |-> complete_background_line(st1, line_number)]

\* The pass caching one plain span over the line instead of the spans of the
\* tokenizer.
background_line_caching_plain(svc, st, line_number, line_content, duration) ==
    LET cached ==
          /\ line_content # NoContent
          /\ Len(line_content[1]) <= svc.max_line_length
          /\ ~has_cached_tokens(st, line_number, calculate_line_hash(line_content[1]))
          /\ duration <= svc.line_timeout \div 2
        st1 == IF cached
               THEN cache_tokens(st, line_number, calculate_line_hash(line_content[1]),
                                 plain_line(line_content[1]))
               ELSE st
    IN  [count |-> IF cached THEN 1 ELSE 0,
         state |-> complete_background_line(st1, line_number)]

\* The pass recording each line it caches in the metrics of the state.
background_line_recording(svc, st, line_number, line_content, duration) ==
    LET cached ==
          /\ line_content # NoContent
          /\ Len(line_content[1]) <= svc.max_line_length
          /\ ~has_cached_tokens(st, line_number, calculate_line_hash(line_content[1]))
          /\ duration <= svc.line_timeout \div 2
        tokens == IF cached THEN adapter_highlight_line(line_content[1]) ELSE <<>>
        st1 == IF cached
               THEN cache_tokens(
                        [st EXCEPT !.metrics =
                            record_line_highlight(@, duration, Len(tokens))],
                        line_number, calculate_line_hash(line_content[1]), tokens)
               ELSE st
    IN  [count |-> IF cached THEN 1 ELSE 0,
         state |-> complete_background_line(st1, line_number)]

\* One pass of the loop of highlight_background_batch over a popped line.
background_line(svc, st, line_number, line_content, duration) ==
    LET cached ==
          /\ line_content # NoContent
          /\ Len(line_content[1]) <= svc.max_line_length
          /\ ~has_cached_tokens(st, line_number, calculate_line_hash(line_content[1]))
          /\ duration <= svc.line_timeout \div 2
        st1 == IF cached
               THEN cache_tokens(st, line_number, calculate_line_hash(line_content[1]),
                                 adapter_highlight_line(line_content[1]))
               ELSE st
    IN  [count |-> IF cached THEN 1 ELSE 0,
         state |-> complete_background_line(st1, line_number)]

RECURSIVE background_loop(_, _, _, _, _, _)
background_loop(svc, st, batch, get_line_content, duration_of, highlighted_count) ==
    IF batch = <<>> THEN [count |-> highlighted_count, state |-> st]
    ELSE
      LET line_number == Head(batch)
          r == background_line(svc, st, line_number,
                               get_line_content[line_number], duration_of[line_number])
      IN  background_loop(svc, r.state, Tail(batch), get_line_content, duration_of,
                          highlighted_count + r.count)

\* HighlightingService::highlight_background_batch: the count returned and the
\* state after the call.
highlight_background_batch(svc, st, get_line_content, duration_of) ==
    IF ~st.enabled \/ ~svc.enabled THEN [count |-> 0, state |-> st]
    ELSE background_loop(svc, get_background_batch(st), background_batch(st),
                         get_line_content, duration_of, 0)

\* ------------------------------------------------------ notify_text_change

\* notify_text_change applying the insert or delete of a Replace or Multiple
\* notification at start_line.
notify_text_change_at_start(st, change_type, start_line, end_line, line_delta) ==
    IF change_type = "Insert"
    THEN handle_text_insert(st, start_line, Max(line_delta, 0))
    ELSE IF change_type = "Delete"
    THEN handle_text_delete(st, start_line, Max(-line_delta, 0))
    ELSE
      LET st1 == mark_lines_dirty(st, start_line, end_line)
      IN  IF line_delta > 0 THEN handle_text_insert(st1, start_line, line_delta)
          ELSE IF line_delta < 0 THEN handle_text_delete(st1, start_line, -line_delta)
          ELSE st1

\* notify_text_change marking the line of an Insert or Delete notification
\* of no lines dirty.
notify_text_change_marking_line(st, change_type, start_line, end_line, line_delta) ==
    IF change_type \in {"Insert", "Delete"} /\ line_delta = 0
    THEN mark_line_dirty(st, start_line)
    ELSE IF change_type = "Insert"
    THEN handle_text_insert(st, start_line, Max(line_delta, 0))
    ELSE IF change_type = "Delete"
    THEN handle_text_delete(st, start_line, Max(-line_delta, 0))
    ELSE
      LET st1 == mark_lines_dirty(st, start_line, end_line)
      IN  IF line_delta > 0 THEN handle_text_insert(st1, end_line, line_delta)
          ELSE IF line_delta < 0 THEN handle_text_delete(st1, end_line, -line_delta)
          ELSE st1

\* The state notify_text_change leaves the registered document state in.
notify_text_change(st, change_type, start_line, end_line, line_delta) ==
    IF change_type = "Insert"
    THEN handle_text_insert(st, start_line, Max(line_delta, 0))
    ELSE IF change_type = "Delete"
    THEN handle_text_delete(st, start_line, Max(-line_delta, 0))
    ELSE
      LET st1 == mark_lines_dirty(st, start_line, end_line)
      IN  IF line_delta > 0 THEN handle_text_insert(st1, end_line, line_delta)
          ELSE IF line_delta < 0 THEN handle_text_delete(st1, end_line, -line_delta)
          ELSE st1

\* TextChangeNotification::insert, ::delete, ::replace, as the arguments of
\* notify_text_change.
notification_new(start_line, end_line, line_delta, change_type) ==
    [start_line |-> start_line, end_line |-> end_line,
     line_delta |-> line_delta, change_type |-> change_type]

notification_insert(start_line, lines_added) ==
    [start_line |-> start_line, end_line |-> start_line + lines_added,
     line_delta |-> lines_added, change_type |-> "Insert"]

notification_delete(start_line, lines_deleted) ==
    [start_line |-> start_line, end_line |-> start_line,
     line_delta |-> -lines_deleted, change_type |-> "Delete"]

notification_replace(start_line, end_line, line_delta) ==
    [start_line |-> start_line, end_line |-> end_line,
     line_delta |-> line_delta, change_type |-> "Replace"]

\* TextChangeNotification::single_line
notification_single_line(line, change_type) ==
    notification_new(line, line, 0, change_type)

\* calculate_line_delta, on the lines of the two cursor positions.
calculate_line_delta(before_y, after_y) == after_y - before_y

\* The notification notify_edit_operation builds from the lines of the cursor
\* before and after the edit.
edit_notification(before_y, after_y, was_deletion) ==
    LET line_delta == calculate_line_delta(before_y, after_y)
    IN  IF was_deletion
        THEN IF line_delta < 0
             THEN notification_delete(after_y, -line_delta)
             ELSE notification_single_line(before_y, "Delete")
        ELSE IF line_delta > 0
             THEN notification_insert(before_y, line_delta)
             ELSE notification_single_line(after_y, "Insert")

notify(st, n) ==
    notify_text_change(st, n.change_type, n.start_line, n.end_line, n.line_delta)

\* ------------------------------------------------------- LanguageDetector

\* A path is a sequence of one-character strings, as a line is; the paths of
\* the model are valid UTF-8, so to_string_lossy leaves them as they are, and
\* none ends in a separator or has a "." component.

\* enum Language
Languages ==
    {"Rust", "JavaScript", "TypeScript", "Python", "Json", "Html", "Css",
     "Markdown", "Yaml", "Toml", "Sql", "PlainText"}

\* Language::PlainText
PlainText == "PlainText"

\* Option<Language>::None
NoLanguage == "none"

\* EXTENSION_MAP
EXTENSION_MAP ==
    "rs" :> "Rust" @@ "js" :> "JavaScript" @@ "mjs" :> "JavaScript"
    @@ "cjs" :> "JavaScript" @@ "jsx" :> "JavaScript" @@ "ts" :> "TypeScript"
    @@ "tsx" :> "TypeScript" @@ "py" :> "Python" @@ "pyw" :> "Python"
    @@ "pyi" :> "Python" @@ "json" :> "Json" @@ "jsonc" :> "Json"
    @@ "json5" :> "Json" @@ "html" :> "Html" @@ "htm" :> "Html"
    @@ "xhtml" :> "Html" @@ "css" :> "Css" @@ "scss" :> "Css"
    @@ "sass" :> "Css" @@ "less" :> "Css" @@ "md" :> "Markdown"
    @@ "markdown" :> "Markdown" @@ "mdown" :> "Markdown" @@ "mkd" :> "Markdown"
    @@ "yaml" :> "Yaml" @@ "yml" :> "Yaml" @@ "toml" :> "Toml"
    @@ "sql" :> "Sql" @@ "sqlite" :> "Sql" @@ "mysql" :> "Sql"
    @@ "pgsql" :> "Sql" @@ "txt" :> "PlainText" @@ "text" :> "PlainText"

\* The string a sequence of characters spells.
RECURSIVE Str(_)
Str(s) == IF s = <<>> THEN "" ELSE s[1] \o Str(Tail(s))

\* char::to_lowercase on the letters the model's paths are written with.
LowerOf(c) ==
    CASE c = "A" -> "a"
      [] c = "P" -> "p"
      [] c = "R" -> "r"
      [] c = "S" -> "s"
      [] c = "Y" -> "y"
      [] OTHER -> c

\* str::to_lowercase
to_lowercase(s) == [i \in 1..Len(s) |-> LowerOf(s[i])]

\* The last position of character c in s, 0 when there is none.
LastIndexOf(s, c) ==
    LET hits == {i \in 1..Len(s) : s[i] = c}
    IN  IF hits = {} THEN 0 ELSE CHOOSE i \in hits : \A j \in hits : j <= i

\* Path::file_name: the final component, none for an empty path or "..".
file_name(path) ==
    LET name == SubSeq(path, LastIndexOf(path, "/") + 1, Len(path))
    IN  IF name = <<>> \/ name = <<".", ".">> THEN NoContent ELSE Some(name)

\* Path::extension: the part of the file name after its last dot; none when
\* the name has no dot or nothing before its last dot.
path_extension(path) ==
    LET name == file_name(path)
    IN  IF name = NoContent THEN NoContent
        ELSE LET dot == LastIndexOf(name[1], ".")
             IN  IF dot <= 1 THEN NoContent
                 ELSE Some(SubSeq(name[1], dot + 1, Len(name[1])))

\* LanguageDetector::new
new_detector == [overrides |-> <<>>]

\* detect_language looking an override up by the path's lower-cased spelling.
detect_language_folded(d, path) ==
    LET folded == {q \in DOMAIN d.overrides : to_lowercase(q) = to_lowercase(path)}
        extension == path_extension(path)
    IN  IF folded # {} THEN d.overrides[CHOOSE q \in folded : TRUE]
        ELSE IF extension # NoContent
                /\ Str(to_lowercase(extension[1])) \in DOMAIN EXTENSION_MAP
        THEN EXTENSION_MAP[Str(to_lowercase(extension[1]))]
        ELSE PlainText

\* LanguageDetector::detect_language
detect_language(d, path) ==
    LET extension == path_extension(path)
    IN  IF path \in DOMAIN d.overrides THEN d.overrides[path]
        ELSE IF extension # NoContent
                /\ Str(to_lowercase(extension[1])) \in DOMAIN EXTENSION_MAP
        THEN EXTENSION_MAP[Str(to_lowercase(extension[1]))]
        ELSE PlainText

\* LanguageDetector::set_language_override
set_language_override(d, path, language) ==
    [d EXCEPT !.overrides = map_insert(@, path, language)]

\* remove_language_override leaving the override in place.
remove_language_override_kept(d, path) ==
    [previous |-> IF path \in DOMAIN d.overrides THEN d.overrides[path]
                  ELSE NoLanguage,
     detector |-> d]

\* LanguageDetector::remove_language_override: the override it returns and
\* the detector after the call.
remove_language_override(d, path) ==
    [previous |-> IF path \in DOMAIN d.overrides THEN d.overrides[path]
                  ELSE NoLanguage,
     detector |-> [d EXCEPT !.overrides = map_remove(@, path)]]

\* LanguageDetector::clear_overrides
clear_overrides(d) == [d EXCEPT !.overrides = <<>>]

\* ---------------------------------------------------------- render bridge

\* Option<Rc<RefCell<HighlightingState>>>::None and Option<Vec<TokenInfo>>::None
NoHandle == <<>>

NoTokens == <<>>

\* register_buffer_highlighting: the registry after the call.
register_buffer_highlighting(reg, buffer_id, handle) ==
    map_insert(reg, buffer_id, handle)

\* unregister_buffer_highlighting
unregister_buffer_highlighting(reg, buffer_id) == map_remove(reg, buffer_id)

\* get_buffer_highlighting
get_buffer_highlighting(reg, buffer_id) ==
    IF buffer_id \in DOMAIN reg THEN Some(reg[buffer_id]) ELSE NoHandle

\* clear_all_highlighting_associations
clear_all_highlighting_associations(reg) == <<>>

\* get_line_tokens calling the service for a disabled state too.
get_line_tokens_through(reg, docs, svc, buffer_id, line_content, line_number, duration) ==
    LET state_rc == get_buffer_highlighting(reg, buffer_id)
    IN  IF state_rc = NoHandle
        THEN [tokens |-> NoTokens, documents |-> docs, service |-> svc]
        ELSE LET r == highlight_line(svc, docs[state_rc[1]], line_content,
                                     line_number, duration)
             IN  [tokens |-> Some(r.tokens),
                  documents |-> [docs EXCEPT ![state_rc[1]] = r.state],
                  service |-> r.service]

\* get_line_tokens: the spans returned, and the states behind the handles and
\* the service after the call.
get_line_tokens(reg, docs, svc, buffer_id, line_content, line_number, duration) ==
    LET state_rc == get_buffer_highlighting(reg, buffer_id)
    IN  IF state_rc = NoHandle
        THEN [tokens |-> NoTokens, documents |-> docs, service |-> svc]
        ELSE IF ~docs[state_rc[1]].enabled
        THEN [tokens |-> NoTokens, documents |-> docs, service |-> svc]
        ELSE LET r == highlight_line(svc, docs[state_rc[1]], line_content,
                                     line_number, duration)
             IN  [tokens |-> Some(r.tokens),
                  documents |-> [docs EXCEPT ![state_rc[1]] = r.state],
                  service |-> r.service]

\* The borrow flag of a RefCell<HighlightingState>: "free" or "exclusive"
\* (the shared borrow of has_background_work is taken and dropped within one
\* step); the mutex of the service: "free", "held" or "poisoned".

\* state_rc.borrow_mut() and state_rc.borrow() panic on a state that is
\* exclusively borrowed.
already_borrowed(brw, handle) == brw[handle] # "free"

\* borrow_mut returning without the borrow being recorded.
borrow_mut_unrecorded(brw, handle) == brw

\* state_rc.borrow_mut() on a free state: the RefMut is held.
borrow_mut(brw, handle) == [brw EXCEPT ![handle] = "exclusive"]

\* The RefMut is dropped.
drop_borrow(brw, handle) == [brw EXCEPT ![handle] = "free"]

\* The bridge operations that use the document state and the service.
UsesBoth ==
    {"get_line_tokens", "get_line_tokens_with_viewport",
     "process_background_highlighting", "update_viewport_tracking"}

\* A bridge call in progress: its arguments, the handle it found, where it is
\* ("lock": about to call global_highlighting_service; "work": both held;
\* "fetch": inside the caller's get_line_content), and for a background pass
\* the lines of the batch still to do and the count so far.
Frame(op, buffer_id, handle, line_content, line_number, viewport_start, viewport_end) ==
    [op |-> op, buffer_id |-> buffer_id, handle |-> handle, pc |-> "lock",
     line_content |-> line_content, line_number |-> line_number,
     viewport_start |-> viewport_start, viewport_end |-> viewport_end,
     batch |-> <<>>, count |-> 0]

\* What the body of a bridge call does between taking the service and
\* returning: the result, the document state and the service it leaves.
bridge_body(f, st, svc, duration) ==
    IF f.op = "update_viewport_tracking"
    THEN [ret |-> <<>>,
          state |-> update_viewport(st, f.viewport_start, f.viewport_end),
          service |-> svc]
    ELSE IF f.op = "process_background_highlighting"
    THEN [ret |-> <<f.count>>, state |-> st, service |-> svc]
    ELSE
      LET st1 == IF f.op = "get_line_tokens_with_viewport"
                 THEN update_viewport(st, f.viewport_start, f.viewport_end)
                 ELSE st
          r == highlight_line(svc, st1, f.line_content, f.line_number, duration)
      IN  [ret |-> <<r.tokens>>, state |-> r.state, service |-> r.service]

\* What a bridge call returns at once, with the state disabled: None, or
\* Some(0) for a background pass.
disabled_return(op) ==
    IF op = "process_background_highlighting" THEN <<0>> ELSE <<>>

\* ------------------------------------------------------------ text buffer

\* The buffer is a sequence of lines; line number k is element k + 1.
\* Insert adds the lines `new` before line start_line.
buffer_insert(buf, start_line, new) ==
    SubSeq(buf, 1, start_line) \o new \o SubSeq(buf, start_line + 1, Len(buf))

\* Delete removes lines start_line .. start_line + lines_deleted - 1.
buffer_delete(buf, start_line, lines_deleted) ==
    SubSeq(buf, 1, start_line)
    \o SubSeq(buf, start_line + lines_deleted + 1, Len(buf))

\* Replace rewrites lines start_line .. end_line as the lines `new`.
buffer_replace(buf, start_line, end_line, new) ==
    SubSeq(buf, 1, start_line) \o new \o SubSeq(buf, end_line + 2, Len(buf))

\* The line provider the editor hands to the background pass.
buffer_line(buf, line_number) ==
    IF line_number < Len(buf) THEN Some(buf[line_number + 1]) ELSE NoContent

\* All sequences over S of length lo..hi.
SeqsOf(S, lo, hi) == UNION {[1..n -> S] : n \in lo..hi}

\* ------------------------------------------------------------------ state

VARIABLES
    state,      \* the document's HighlightingState
    service,    \* the HighlightingService
    buffer,     \* the text buffer's lines
    last,       \* the last call made: its name, arguments and result
    calls,      \* the number of calls made so far
    detector,   \* the service's LanguageDetector
    registry,   \* BUFFER_HIGHLIGHTING_REGISTRY: buffer identity -> handle
    documents,  \* the HighlightingState behind each handle
    borrows,    \* the borrow flag of each handle's RefCell
    service_lock, \* the mutex of HIGHLIGHTING_SERVICE
    frames,     \* the bridge calls in progress on the main thread, innermost last
    thread      \* the main thread: running, panicked or deadlocked

\* The variables of the calls in progress.
call_vars == <<borrows, service_lock, frames, thread>>

vars == <<state, service, buffer, last, calls, detector, registry, documents,
          borrows, service_lock, frames, thread>>

\* A call: its name, its arguments and its result; provider and durations are
\* the line provider handed to a background pass and the tokenize time of each
\* of its lines, empty for every other call; path and language are the
\* arguments of a call on the detector and prior the detector before it;
\* buffer_id and handle are the arguments of a call on the registry.
Call(op, line, n, delta, content, ret) ==
    [op |-> op, line |-> line, n |-> n, delta |-> delta,
     content |-> content, ret |-> ret, provider |-> <<>>, durations |-> <<>>,
     path |-> <<>>, language |-> NoLanguage, prior |-> new_detector,
     buffer_id |-> 0, handle |-> 0]

NoCall == Call("none", 0, 0, 0, <<>>, <<>>)

\* Every line number the state holds is within the model's line numbers.
InRange(st) ==
    \A k \in (DOMAIN st.token_cache) \cup (DOMAIN st.cache_validity)
             \cup st.dirty_lines \cup st.background_in_progress
             \cup SeqToSet(st.background_queue) : k <= MaxLine

\* No language override is registered, no buffer is bound to a handle and no
\* handle exists.
NothingRegistered ==
    /\ detector = new_detector
    /\ registry = <<>>
    /\ documents = <<>>

\* No call is in progress: no state is borrowed, the service is unlocked and
\* the main thread runs.
NothingRunning ==
    /\ borrows = [h \in DOMAIN documents |-> "free"]
    /\ service_lock = "free"
    /\ frames = <<>>
    /\ thread = "running"

\* One more call is made.
Called == calls < MaxCalls /\ calls' = calls + 1

\* ---------------------------------------------------------------- actions

\* service.highlight_line(&mut state, line, line_number)
HighlightLine(line, line_number, duration) ==
    /\ LET r == highlight_line(service, state, line, line_number, duration)
       IN  /\ state' = r.state
           /\ service' = r.service
           /\ Called
           /\ last' = Call("highlight_line", line_number, duration, 0, line, r.tokens)
    /\ UNCHANGED <<buffer, detector, registry, documents, call_vars>>

\* service.highlight_background_batch(&mut state, get_line_content)
BackgroundBatch(get_line_content, duration_of) ==
    /\ LET r == highlight_background_batch(service, state, get_line_content,
                                           duration_of)
       IN  /\ state' = r.state
           /\ Called
           /\ last' = [Call("highlight_background_batch", 0, 0, 0, <<>>, r.count)
                           EXCEPT !.provider = get_line_content,
                                  !.durations = duration_of]
    /\ UNCHANGED <<service, buffer, detector, registry, documents, call_vars>>

MarkLineDirty(line_number) ==
    /\ state' = mark_line_dirty(state, line_number)
    /\ Called /\ last' = Call("mark_line_dirty", line_number, 0, 0, <<>>, <<>>)
    /\ UNCHANGED <<service, buffer, detector, registry, documents, call_vars>>

MarkLinesDirty(start_line, end_line) ==
    /\ state' = mark_lines_dirty(state, start_line, end_line)
    /\ Called /\ last' = Call("mark_lines_dirty", start_line, end_line, 0, <<>>, <<>>)
    /\ UNCHANGED <<service, buffer, detector, registry, documents, call_vars>>

MarkDocumentDirty ==
    /\ state' = mark_document_dirty(state)
    /\ Called /\ last' = Call("mark_document_dirty", 0, 0, 0, <<>>, <<>>)
    /\ UNCHANGED <<service, buffer, detector, registry, documents, call_vars>>

\* notify_text_change(buffer, &n) on the state registered for the buffer.
Notify(n) ==
    /\ state' = notify(state, n)
    /\ InRange(state')
    /\ Called
    /\ last' = Call(n.change_type, n.start_line, n.end_line, n.line_delta,
                    <<>>, <<>>)
    /\ UNCHANGED <<service, detector, registry, documents, call_vars>>

UpdateViewport(start_line, end_line) ==
    /\ state' = update_viewport(state, start_line, end_line)
    /\ Called /\ last' = Call("update_viewport", start_line, end_line, 0, <<>>, <<>>)
    /\ UNCHANGED <<service, buffer, detector, registry, documents, call_vars>>

SetBackgroundLookahead(distance) ==
    /\ state' = set_background_lookahead(state, distance)
    /\ Called /\ last' = Call("set_background_lookahead", distance, 0, 0, <<>>, <<>>)
    /\ UNCHANGED <<service, buffer, detector, registry, documents, call_vars>>

GetBackgroundBatch ==
    /\ state' = get_background_batch(state)
    /\ Called /\ last' = Call("get_background_batch", 0, 0, 0, <<>>, background_batch(state))
    /\ UNCHANGED <<service, buffer, detector, registry, documents, call_vars>>

CompleteBackgroundLine(line_number) ==
    /\ state' = complete_background_line(state, line_number)
    /\ Called /\ last' = Call("complete_background_line", line_number, 0, 0, <<>>, <<>>)
    /\ UNCHANGED <<service, buffer, detector, registry, documents, call_vars>>

SetEnabled(enabled) ==
    /\ service' = set_enabled(service, enabled)
    /\ Called /\ last' = Call("set_enabled", 0, 0, 0, <<>>, <<>>)
    /\ UNCHANGED <<state, buffer, detector, registry, documents, call_vars>>

SetMaxLineLength(max_length) ==
    /\ service' = set_max_line_length(service, max_length)
    /\ Called /\ last' = Call("set_max_line_length", max_length, 0, 0, <<>>, <<>>)
    /\ UNCHANGED <<state, buffer, detector, registry, documents, call_vars>>

SetLineTimeout(timeout) ==
    /\ service' = set_line_timeout(service, timeout)
    /\ Called /\ last' = Call("set_line_timeout", timeout, 0, 0, <<>>, <<>>)
    /\ UNCHANGED <<state, buffer, detector, registry, documents, call_vars>>

\* service.reset_metrics()
ResetMetrics ==
    /\ service' = reset_metrics(service)
    /\ Called /\ last' = Call("reset_metrics", 0, 0, 0, <<>>, <<>>)
    /\ UNCHANGED <<state, buffer, detector, registry, documents, call_vars>>

\* state.metrics.reset()
ResetStateMetrics ==
    /\ state' = [state EXCEPT !.metrics = reset(@)]
    /\ Called /\ last' = Call("metrics.reset", 0, 0, 0, <<>>, <<>>)
    /\ UNCHANGED <<service, buffer, detector, registry, documents, call_vars>>

\* detector.detect_language(path)
DetectLanguage(path) ==
    /\ Called
    /\ last' = [Call("detect_language", 0, 0, 0, <<>>, <<>>) EXCEPT
                   !.path = path,
                   !.language = detect_language(detector, path),
                   !.prior = detector]
    /\ UNCHANGED <<state, service, buffer, detector, registry, documents, call_vars>>

\* detector.set_language_override(path, language)
SetLanguageOverride(path, language) ==
    /\ detector' = set_language_override(detector, path, language)
    /\ Called
    /\ last' = [Call("set_language_override", 0, 0, 0, <<>>, <<>>) EXCEPT
                   !.path = path, !.language = language, !.prior = detector]
    /\ UNCHANGED <<state, service, buffer, registry, documents, call_vars>>

\* detector.remove_language_override(path)
RemoveLanguageOverride(path) ==
    /\ LET r == remove_language_override(detector, path)
       IN  /\ detector' = r.detector
           /\ last' = [Call("remove_language_override", 0, 0, 0, <<>>, <<>>) EXCEPT
                          !.path = path, !.language = r.previous,
                          !.prior = detector]
    /\ Called
    /\ UNCHANGED <<state, service, buffer, registry, documents, call_vars>>

\* detector.clear_overrides()
ClearOverrides ==
    /\ detector' = clear_overrides(detector)
    /\ Called
    /\ last' = [Call("clear_overrides", 0, 0, 0, <<>>, <<>>) EXCEPT
                   !.prior = detector]
    /\ UNCHANGED <<state, service, buffer, registry, documents, call_vars>>

\* register_buffer_highlighting(&buffer, handle)
RegisterBufferHighlighting(buffer_id, handle) ==
    /\ registry' = register_buffer_highlighting(registry, buffer_id, handle)
    /\ Called
    /\ last' = [Call("register_buffer_highlighting", 0, 0, 0, <<>>, <<>>) EXCEPT
                   !.buffer_id = buffer_id, !.handle = handle]
    /\ UNCHANGED <<state, service, buffer, detector, documents, call_vars>>

\* unregister_buffer_highlighting(&buffer)
UnregisterBufferHighlighting(buffer_id) ==
    /\ registry' = unregister_buffer_highlighting(registry, buffer_id)
    /\ Called
    /\ last' = [Call("unregister_buffer_highlighting", 0, 0, 0, <<>>, <<>>) EXCEPT
                   !.buffer_id = buffer_id]
    /\ UNCHANGED <<state, service, buffer, detector, documents, call_vars>>

\* clear_all_highlighting_associations()
ClearAllHighlightingAssociations ==
    /\ registry' = clear_all_highlighting_associations(registry)
    /\ Called
    /\ last' = Call("clear_all_highlighting_associations", 0, 0, 0, <<>>, <<>>)
    /\ UNCHANGED <<state, service, buffer, detector, documents, call_vars>>

\* get_buffer_highlighting(&buffer)
GetBufferHighlighting(buffer_id) ==
    /\ Called
    /\ last' = [Call("get_buffer_highlighting", 0, 0, 0, <<>>,
                     get_buffer_highlighting(registry, buffer_id)) EXCEPT
                   !.buffer_id = buffer_id]
    /\ UNCHANGED <<state, service, buffer, detector, registry, documents, call_vars>>

\* get_line_tokens(&buffer, line_content, line_number)
GetLineTokens(buffer_id, line_content, line_number, duration) ==
    /\ LET r == get_line_tokens(registry, documents, service, buffer_id,
                                line_content, line_number, duration)
       IN  /\ documents' = r.documents
           /\ service' = r.service
           /\ last' = [Call("get_line_tokens", line_number, duration, 0,
                            line_content, r.tokens) EXCEPT
                          !.buffer_id = buffer_id]
    /\ Called
    /\ UNCHANGED <<state, buffer, detector, registry, call_vars>>

\* The innermost bridge call in progress.
Top == frames[Len(frames)]

\* A call can be made: the main thread runs, and either no bridge call is in
\* progress or the innermost one is inside its caller's get_line_content.
CanCall ==
    /\ thread = "running"
    /\ IF frames = <<>> THEN TRUE ELSE Top.pc = "fetch"

\* A panic unwinds every call in progress: the guards they hold are dropped,
\* which frees the borrows and poisons the mutex if it is held.
Panic ==
    /\ thread' = "panicked"
    /\ frames' = <<>>
    /\ borrows' = [h \in DOMAIN borrows |-> "free"]
    /\ service_lock' = IF service_lock = "held" THEN "poisoned" ELSE service_lock

\* The call op on buffer_id returns ret to its caller.
Returns(op, buffer_id, ret) ==
    last' = [Call(op, 0, 0, 0, <<>>, ret) EXCEPT !.buffer_id = buffer_id]

\* get_line_tokens, get_line_tokens_with_viewport, update_viewport_tracking or
\* process_background_highlighting is called: it looks the buffer up and
\* returns at once without a binding, borrows the state exclusively, returns
\* at once if the state is disabled, and goes on to take the service.
BridgeCall(op, buffer_id, line_content, line_number, viewport_start, viewport_end) ==
    /\ CanCall
    /\ Called
    /\ UNCHANGED <<state, service, buffer, detector, registry, documents>>
    /\ IF buffer_id \notin DOMAIN registry
       THEN /\ Returns(op, buffer_id, <<>>)
            /\ UNCHANGED call_vars
       ELSE LET handle == registry[buffer_id]
            IN  IF already_borrowed(borrows, handle)
                THEN Panic /\ UNCHANGED last
                ELSE IF ~documents[handle].enabled
                THEN /\ Returns(op, buffer_id, disabled_return(op))
                     /\ UNCHANGED call_vars
                ELSE /\ borrows' = borrow_mut(borrows, handle)
                     /\ frames' = Append(frames,
                                         Frame(op, buffer_id, handle, line_content,
                                               line_number, viewport_start,
                                               viewport_end))
                     /\ UNCHANGED <<last, service_lock, thread>>

\* The innermost call calls global_highlighting_service(): it gets the guard
\* of a free mutex; locking the mutex the thread already holds never returns,
\* it panics or blocks for ever.
TakeService ==
    /\ thread = "running"
    /\ frames # <<>>
    /\ Top.pc = "lock"
    /\ UNCHANGED <<state, service, buffer, last, calls, detector, registry, documents>>
    /\ IF service_lock = "free"
       THEN /\ service_lock' = "held"
            /\ frames' = [frames EXCEPT ![Len(frames)].pc = "work"]
            /\ UNCHANGED <<borrows, thread>>
       ELSE \/ Panic
            \/ /\ thread' = "deadlocked"
               /\ UNCHANGED <<borrows, service_lock, frames>>

\* highlight_background_batch starts: with the service enabled it pops the
\* batch and calls get_line_content for its first line.
TakeBatch ==
    /\ thread = "running"
    /\ frames # <<>>
    /\ Top.pc = "work"
    /\ Top.op = "process_background_highlighting"
    /\ LET batch == IF service.enabled
                    THEN background_batch(documents[Top.handle]) ELSE <<>>
       IN  /\ documents' = [documents EXCEPT ![Top.handle] =
                               IF service.enabled THEN get_background_batch(@) ELSE @]
           /\ frames' = [frames EXCEPT ![Len(frames)] =
                            [@ EXCEPT !.batch = batch,
                                      !.pc = IF batch = <<>> THEN "return" ELSE "fetch"]]
    /\ UNCHANGED <<state, service, buffer, last, calls, detector, registry,
                   borrows, service_lock, thread>>

\* get_line_content returns line_content for the first line of the batch left:
\* the pass handles the line and calls get_line_content for the next one.
FetchReturns(line_content, duration) ==
    /\ thread = "running"
    /\ frames # <<>>
    /\ Top.pc = "fetch"
    /\ LET r == background_line(service, documents[Top.handle], Head(Top.batch),
                                line_content, duration)
           rest == Tail(Top.batch)
       IN  /\ documents' = [documents EXCEPT ![Top.handle] = r.state]
           /\ frames' = [frames EXCEPT ![Len(frames)] =
                            [@ EXCEPT !.batch = rest,
                                      !.count = @ + r.count,
                                      !.pc = IF rest = <<>> THEN "return" ELSE "fetch"]]
    /\ UNCHANGED <<state, service, buffer, last, calls, detector, registry,
                   borrows, service_lock, thread>>

\* The innermost call does its work on the state and the service and returns:
\* the guard of the service is dropped, then the borrow of the state.
BridgeReturn(duration) ==
    /\ thread = "running"
    /\ frames # <<>>
    /\ IF Top.op = "process_background_highlighting"
       THEN Top.pc = "return" ELSE Top.pc = "work"
    /\ LET r == bridge_body(Top, documents[Top.handle], service, duration)
       IN  /\ documents' = [documents EXCEPT ![Top.handle] = r.state]
           /\ service' = r.service
           /\ Returns(Top.op, Top.buffer_id, r.ret)
    /\ service_lock' = "free"
    /\ borrows' = drop_borrow(borrows, Top.handle)
    /\ frames' = SubSeq(frames, 1, Len(frames) - 1)
    /\ UNCHANGED <<state, buffer, calls, detector, registry, thread>>

\* notify_text_change(&buffer, &n) through the registry: nothing without a
\* binding; with one, the state is borrowed exclusively for the update.
NotifyTextChange(buffer_id, n) ==
    /\ CanCall
    /\ Called
    /\ UNCHANGED <<state, service, buffer, detector, registry>>
    /\ IF buffer_id \notin DOMAIN registry
       THEN /\ Returns("notify_text_change", buffer_id, <<>>)
            /\ UNCHANGED <<documents, call_vars>>
       ELSE IF already_borrowed(borrows, registry[buffer_id])
       THEN Panic /\ UNCHANGED <<last, documents>>
       ELSE /\ documents' = [documents EXCEPT ![registry[buffer_id]] = notify(@, n)]
            /\ Returns("notify_text_change", buffer_id, <<>>)
            /\ UNCHANGED call_vars

\* render_bridge::has_background_work(&buffer): false without a binding; with
\* one, the state is borrowed for the read.
HasBackgroundWork(buffer_id) ==
    /\ CanCall
    /\ Called
    /\ UNCHANGED <<state, service, buffer, detector, registry, documents>>
    /\ IF buffer_id \notin DOMAIN registry
       THEN /\ Returns("has_background_work", buffer_id, <<FALSE>>)
            /\ UNCHANGED call_vars
       ELSE IF already_borrowed(borrows, registry[buffer_id])
       THEN Panic /\ UNCHANGED last
       ELSE /\ Returns("has_background_work", buffer_id,
                       <<has_background_work(documents[registry[buffer_id]])>>)
            /\ UNCHANGED call_vars

\* The buffer inserts the lines `new` before start_line and reports it.
BufferInsert(start_line, new) ==
    /\ start_line <= Len(buffer)
    /\ Len(buffer) + Len(new) <= MaxLine + 1
    /\ buffer' = buffer_insert(buffer, start_line, new)
    /\ Notify(notification_insert(start_line, Len(new)))

\* The buffer deletes lines_deleted lines from start_line and reports it.
BufferDelete(start_line, lines_deleted) ==
    /\ start_line + lines_deleted <= Len(buffer)
    /\ buffer' = buffer_delete(buffer, start_line, lines_deleted)
    /\ Notify(notification_delete(start_line, lines_deleted))

\* The buffer rewrites lines start_line..end_line as `new` and reports it.
BufferReplace(start_line, end_line, new) ==
    LET line_delta == Len(new) - (end_line - start_line + 1)
    IN  /\ start_line <= end_line
        /\ end_line < Len(buffer)
        /\ Len(buffer) + line_delta <= MaxLine + 1
        /\ line_delta >= -MaxEdit
        /\ line_delta <= MaxEdit
        /\ buffer' = buffer_replace(buffer, start_line, end_line, new)
        /\ Notify(notification_replace(start_line, end_line, line_delta))

\* A notification for a buffer the model does not follow.
NotifyOnly(n) == Notify(n) /\ UNCHANGED buffer

\* notify_edit_operation(buffer, cursor_before, cursor_after, was_deletion),
\* the cursor on line before_y before the edit and on after_y after it.
NotifyEditOperation(before_y, after_y, was_deletion) ==
    NotifyOnly(edit_notification(before_y, after_y, was_deletion))

\* The renderer draws line line_number of the buffer.
Render(line_number, duration) ==
    /\ line_number < Len(buffer)
    /\ HighlightLine(buffer[line_number + 1], line_number, duration)

\* The editor's idle loop runs one background pass over the buffer.
Idle(duration_of) ==
    BackgroundBatch(
        [l \in SeqToSet(background_batch(state)) |-> buffer_line(buffer, l)],
        duration_of)

\* The longest queue a rebuild leaves: lookahead lines on either side of the
\* viewport, for the largest lookahead a state is configured with.
QueueCapacity == 2 * (CHOOSE l \in Lookaheads : \A m \in Lookaheads : m <= l)

\* The editor's main loop, with no input pending and has_background_work true,
\* runs one background pass; the passes that empty a full queue come on top
\* of the calls of a behaviour.
IdlePass(get_line_content, duration_of) ==
    /\ has_background_work(state)
    /\ calls < MaxCalls + QueueCapacity
    /\ LET r == highlight_background_batch(service, state, get_line_content,
                                           duration_of)
       IN  /\ state' = r.state
           /\ last' = [Call("highlight_background_batch", 0, 0, 0, <<>>, r.count)
                           EXCEPT !.provider = get_line_content,
                                  !.durations = duration_of]
    /\ calls' = calls + 1
    /\ UNCHANGED <<service, buffer, detector, registry, documents, call_vars>>

\* Tokenize times on either side of the deadline of highlight_line, and of the
\* halved deadline of the background pass.
ForegroundDurations == {1, 60}

BackgroundDurations == {1, 30}

\* Lines a buffer holds in the model.
BufferContents == {<<"f">>, <<"f", "x">>}

\* ---------------------------------------------- the document being edited

\* A file of two or three lines is opened; its state is configured with a
\* batch size of 2 and a lookahead of 1.
Init ==
    /\ state = new_state(2, 1)
    /\ service = new_service
    /\ buffer \in SeqsOf(BufferContents, 2, 3)
    /\ last = NoCall
    /\ calls = 0
    /\ NothingRegistered
    /\ NothingRunning

Next ==
    \/ \E n \in Lines, d \in ForegroundDurations : Render(n, d)
    \/ \E s \in Lines, new \in SeqsOf(BufferContents, 0, MaxEdit) :
          BufferInsert(s, new)
    \/ \E s \in Lines, n \in 0..MaxEdit : BufferDelete(s, n)
    \/ \E s \in Lines, e \in Lines, n \in 0..(MaxLine + 1) :
          /\ s <= e
          /\ n - (e - s + 1) \in (-MaxEdit)..MaxEdit
          /\ \E new \in [1..n -> BufferContents] : BufferReplace(s, e, new)
    \/ \E s \in Lines, e \in Lines : s <= e /\ UpdateViewport(s, e)
    \/ \E d \in [SeqToSet(background_batch(state)) -> BackgroundDurations] : Idle(d)

Spec == Init /\ [][Next]_vars

\* ------------------------------------------- the service called directly

\* What a line provider may answer for a line.
Provided == {Some(line) : line \in Contents} \cup {NoContent}

InitService ==
    /\ state = new_state(2, 1)
    /\ service = new_service
    /\ buffer = <<>>
    /\ last = NoCall
    /\ calls = 0
    /\ NothingRegistered
    /\ NothingRunning

NextService ==
    \/ \E line \in Contents, n \in Lines, d \in ForegroundDurations :
          HighlightLine(line, n, d)
    \/ \E g \in [SeqToSet(background_batch(state)) -> Provided],
          d \in [SeqToSet(background_batch(state)) -> BackgroundDurations] :
          BackgroundBatch(g, d)
    \/ \E n \in Lines : MarkLineDirty(n)
    \/ \E s \in Lines, e \in Lines : MarkLinesDirty(s, e)
    \/ MarkDocumentDirty
    \/ \E s \in Lines, n \in 0..MaxDelta : NotifyOnly(notification_insert(s, n))
    \/ \E s \in Lines, n \in 0..MaxDelta : NotifyOnly(notification_delete(s, n))
    \/ \E s \in Lines, e \in Lines : UpdateViewport(s, e) /\ InRange(state')
    \/ \E b \in BOOLEAN : SetEnabled(b)
    \/ \E m \in {1, DefaultMaxLineLength} : SetMaxLineLength(m)
    \/ ResetMetrics
    \/ ResetStateMetrics

SpecService == InitService /\ [][NextService]_vars

\* ------------------------------------ highlight_line under every setting

\* Tokenize times: none measurable, under the default deadline, over it.
LineDurations == {0, 1, 60}

\* The first and the last line of the model.
LineNumbers == {0, MaxLine}

\* The state create_highlighting_state returns is enabled for a supported
\* language and disabled otherwise.
InitLine ==
    /\ state \in {new_state(2, 1), disabled_state(2, 1)}
    /\ service = new_service
    /\ buffer = <<>>
    /\ last = NoCall
    /\ calls = 0
    /\ NothingRegistered
    /\ NothingRunning

NextLine ==
    \/ \E line \in Contents, n \in LineNumbers, d \in LineDurations :
          HighlightLine(line, n, d)
    \/ \E b \in BOOLEAN : SetEnabled(b)
    \/ \E timeout \in {0, DefaultLineTimeout} : SetLineTimeout(timeout)
    \/ \E m \in {1, DefaultMaxLineLength} : SetMaxLineLength(m)

SpecLine == InitLine /\ [][NextLine]_vars

\* ------------------------------------ Replace and Multiple notifications

InitNotify ==
    /\ state = new_state(2, 1)
    /\ service = new_service
    /\ buffer = <<>>
    /\ last = NoCall
    /\ calls = 0
    /\ NothingRegistered
    /\ NothingRunning

NextNotify ==
    \/ \E n \in Lines : HighlightLine(<<"f">>, n, 1)
    \/ \E s \in Lines : UpdateViewport(s, s) /\ InRange(state')
    \/ \E s \in Lines, e \in Lines, d \in (-MaxEdit)..MaxEdit :
          NotifyOnly(notification_replace(s, e, d))
    \/ \E s \in Lines, e \in Lines, d \in (-MaxEdit)..MaxEdit :
          NotifyOnly(notification_new(s, e, d, "Multiple"))
    \/ \E before_y \in Lines, after_y \in Lines, was_deletion \in BOOLEAN :
          NotifyEditOperation(before_y, after_y, was_deletion)

SpecNotify == InitNotify /\ [][NextNotify]_vars

\* ------------------------------------------------------ language detection

\* Paths detection is asked about: no extension, a known extension in lower,
\* upper and mixed case, a name differing from another in the case of its stem
\* only, an unknown extension, a name that starts with its only dot, and a
\* directory with a dot holding a file without one.
Paths ==
    {<<"a">>,
     <<"a", ".", "r", "s">>,
     <<"A", ".", "r", "s">>,
     <<"a", ".", "R", "S">>,
     <<"a", ".", "P", "y">>,
     <<"a", ".", "z">>,
     <<".", "r", "s">>,
     <<"a", ".", "r", "s", "/", "a">>}

\* Paths overrides are set and removed for, and the languages they name.
OverridePaths == {<<"a">>, <<"a", ".", "r", "s">>, <<"A", ".", "r", "s">>}

OverrideLanguages == {"Python", "Rust"}

InitDetect ==
    /\ state = new_state(2, 1)
    /\ service = new_service
    /\ buffer = <<>>
    /\ last = NoCall
    /\ calls = 0
    /\ NothingRegistered
    /\ NothingRunning

NextDetect ==
    \/ \E p \in Paths : DetectLanguage(p)
    \/ \E p \in OverridePaths, X \in OverrideLanguages : SetLanguageOverride(p, X)
    \/ \E p \in OverridePaths : RemoveLanguageOverride(p)
    \/ ClearOverrides

SpecDetect == InitDetect /\ [][NextDetect]_vars

\* ------------------------------------------------------- the render bridge

\* Identities of the text buffers (their addresses), and the handles: one to
\* the enabled state of a file in a supported language, one to the disabled
\* state of a file in an unsupported one.
Buffers == {1, 2}

Handles == {1, 2}

InitBridge ==
    /\ state = new_state(2, 1)
    /\ service = new_service
    /\ buffer = <<>>
    /\ last = NoCall
    /\ calls = 0
    /\ detector = new_detector
    /\ registry = <<>>
    /\ documents = <<new_state(2, 1), disabled_state(2, 1)>>
    /\ NothingRunning

NextBridge ==
    \/ \E b \in Buffers, h \in Handles : RegisterBufferHighlighting(b, h)
    \/ \E b \in Buffers : UnregisterBufferHighlighting(b)
    \/ ClearAllHighlightingAssociations
    \/ \E b \in Buffers : GetBufferHighlighting(b)
    \/ \E b \in Buffers, line \in Contents, d \in ForegroundDurations :
          GetLineTokens(b, line, 0, d)
    \/ \E b \in BOOLEAN : SetEnabled(b)

SpecBridge == InitBridge /\ [][NextBridge]_vars

\* ------------------------------------- the viewport and the background queue

\* Viewport endpoints: the model's lines, and the lines four and five lines
\* away from the last of them.
ViewportLines == Lines \cup {MaxLine + 4, MaxLine + 5}

InitQueue ==
    /\ \E b \in BatchSizes, l \in Lookaheads : state = new_state(b, l)
    /\ service = new_service
    /\ buffer = <<>>
    /\ last = NoCall
    /\ calls = 0
    /\ NothingRegistered
    /\ NothingRunning

NextQueue ==
    \/ \E s \in ViewportLines, e \in ViewportLines : UpdateViewport(s, e)
    \/ \E n \in Lines : HighlightLine(<<"f">>, n, 1)
    \/ \E d \in Lookaheads \cup {0} : SetBackgroundLookahead(d)
    \/ GetBackgroundBatch
    \/ \E n \in Lines : CompleteBackgroundLine(n)
    \/ \E s \in Lines, n \in 0..MaxDelta : NotifyOnly(notification_insert(s, n))
    \/ \E s \in Lines, n \in 0..MaxDelta : NotifyOnly(notification_delete(s, n))

SpecQueue == InitQueue /\ [][NextQueue]_vars

\* ------------------------------- background passes, enabled and disabled

\* The state of a file in a supported language, or the disabled state of a
\* file in an unsupported one.
InitPass ==
    /\ state \in {new_state(2, 2), disabled_state(2, 2)}
    /\ service = new_service
    /\ buffer = <<>>
    /\ last = NoCall
    /\ calls = 0
    /\ NothingRegistered
    /\ NothingRunning

NextPass ==
    \/ \E s \in Lines : UpdateViewport(s, s)
    \/ \E line \in Contents, n \in Lines : HighlightLine(line, n, 1)
    \/ \E n \in Lines : MarkLineDirty(n)
    \/ MarkDocumentDirty
    \/ \E g \in [SeqToSet(background_batch(state)) -> Provided],
          d \in [SeqToSet(background_batch(state)) -> BackgroundDurations] :
          BackgroundBatch(g, d)
    \/ \E b \in BOOLEAN : SetEnabled(b)

SpecPass == InitPass /\ [][NextPass]_vars

\* --------------------------------------------- the idle loop and the queue

InitDrain ==
    /\ \E b \in BatchSizes, l \in Lookaheads : state = new_state(b, l)
    /\ service = new_service
    /\ buffer = <<>>
    /\ last = NoCall
    /\ calls = 0
    /\ NothingRegistered
    /\ NothingRunning

\* One pass of the idle loop: the line provider has the line or not, and the
\* tokenize call is within the halved deadline or over it.
IdleLoop ==
    \E g \in [SeqToSet(background_batch(state)) -> {Some(<<"f">>), NoContent}],
       d \in [SeqToSet(background_batch(state)) -> BackgroundDurations] :
       IdlePass(g, d)

NextDrain ==
    \/ \E s \in Lines, e \in Lines : UpdateViewport(s, e)
    \/ \E n \in Lines : HighlightLine(<<"f">>, n, 1)
    \/ IdleLoop

\* The main loop comes back to the idle loop whenever no input is pending.
SpecDrain == InitDrain /\ [][NextDrain]_vars /\ WF_vars(IdleLoop)

\* --------------------------- calls made from inside the line provider

\* Two buffers are open, each registered with its own state; the first file is
\* scrolled to line 1, the second is in a supported language or not.
InitReentry ==
    /\ state = new_state(2, 1)
    /\ service = new_service
    /\ buffer = <<>>
    /\ last = NoCall
    /\ calls = 0
    /\ detector = new_detector
    /\ registry = [b \in Buffers |-> b]
    /\ \E second \in {new_state(2, 1), disabled_state(2, 1)} :
          documents = <<update_viewport(new_state(2, 1), 1, 1), second>>
    /\ NothingRunning

NextReentry ==
    \/ \E op \in UsesBoth, b \in Buffers : BridgeCall(op, b, <<"f">>, 0, 1, 1)
    \/ TakeService
    \/ TakeBatch
    \/ \E c \in {Some(<<"f">>), NoContent} : FetchReturns(c, 1)
    \/ BridgeReturn(1)
    \/ \E b \in Buffers : NotifyTextChange(b, notification_insert(0, 1))
    \/ \E b \in Buffers : HasBackgroundWork(b)
    \/ \E b \in Buffers, h \in Handles : CanCall /\ RegisterBufferHighlighting(b, h)
    \/ \E b \in Buffers : CanCall /\ UnregisterBufferHighlighting(b)
    \/ \E b \in Buffers : CanCall /\ GetBufferHighlighting(b)
    \/ CanCall /\ ClearAllHighlightingAssociations

SpecReentry == InitReentry /\ [][NextReentry]_vars

\* ------------------------------------------------------------------ claims

\* The step just taken is a call (every call is counted).
Stepped == calls' = calls + 1

\* C1: after any sequence of inserts, deletes and replaces of the buffer, each
\* reported through notify_text_change, every cache entry carries the hash of
\* the buffer's current content at its line; edited lines hold no entry, so this
\* covers every line the edits did not touch.
C1_CachedHashMatchesBuffer ==
    \A L \in DOMAIN state.cache_validity :
        /\ L < Len(buffer)
        /\ state.cache_validity[L] = calculate_line_hash(buffer[L + 1])

\* A delete has moved a cache entry that was below the deleted lines.
C1_Witness ==
    /\ last.op = "Delete"
    /\ last.delta < 0
    /\ \E L \in DOMAIN state.cache_validity : L >= last.line

\* C2: no line of the dirty set has an entry in the token cache.
C2_DirtyNotCached ==
    \A L \in state.dirty_lines : L \notin DOMAIN state.token_cache

\* C3: a highlight_line call for a line for which is_line_dirty holds (on an
\* enabled state, within the length budget) is counted as a cache miss, not as
\* a hit, whatever content is passed.
C3_DirtyLineMisses ==
    [][(/\ Stepped
        /\ last'.op = "highlight_line"
        /\ state.enabled /\ service.enabled
        /\ Len(last'.content) <= service.max_line_length
        /\ is_line_dirty(state, last'.line))
       => /\ state'.metrics.cache_misses = state.metrics.cache_misses + 1
          /\ state'.metrics.cache_hits = state.metrics.cache_hits]_vars

\* C4: no line is in the background queue and in the in-progress set at once.
C4_QueueDisjointFromInProgress ==
    SeqToSet(state.background_queue) \cap state.background_in_progress = {}

\* C5: the background queue holds each line number at most once.
C5_QueueHasNoDuplicates ==
    \A i, j \in DOMAIN state.background_queue :
        state.background_queue[i] = state.background_queue[j] => i = j

\* The entries of both cache maps before and after the step.
CachedBefore == DOMAIN state.token_cache \cup DOMAIN state.cache_validity
CachedAfter == DOMAIN state'.token_cache \cup DOMAIN state'.cache_validity

\* The entry at line k before the step is the entry at line j after it.
EntryMoved(k, j) ==
    /\ j \in DOMAIN state'.token_cache
    /\ j \in DOMAIN state'.cache_validity
    /\ state'.token_cache[j] = state.token_cache[k]
    /\ state'.cache_validity[j] = state.cache_validity[k]
    /\ has_cached_tokens(state', j, state.cache_validity[k])

\* C6: an insert notification at s with n >= 1 moves every entry at k >= s to
\* k + n with its spans and hash, leaves every entry at k < s where it is, and
\* leaves no other entry; a lookup at the shifted line with the original hash
\* hits, and no lookup at s hits.
C6_InsertShiftsEntries ==
    [][(Stepped /\ last'.op = "Insert" /\ last'.delta >= 1)
       => LET s == last'.line
              n == last'.delta
          IN  /\ \A k \in CachedBefore :
                    EntryMoved(k, IF k >= s THEN k + n ELSE k)
              /\ \A j \in CachedAfter :
                    \/ j < s /\ j \in CachedBefore
                    \/ j >= s + n /\ (j - n) \in CachedBefore
              /\ \A c \in Contents :
                    ~has_cached_tokens(state', s, calculate_line_hash(c))]_vars

\* An insert has left entries on both sides of the inserted lines.
C6_Witness ==
    /\ last.op = "Insert"
    /\ last.delta >= 1
    /\ \E j \in DOMAIN state.token_cache : j < last.line
    /\ \E j \in DOMAIN state.token_cache : j >= last.line + last.delta

\* C7: a delete notification at s with n >= 1 removes the entries of
\* [s, s + n), leaves every entry at k < s where it is, moves every entry at
\* k >= s + n to k - n with its spans and hash, and leaves no other entry.
C7_DeleteShiftsEntries ==
    [][(Stepped /\ last'.op = "Delete" /\ last'.delta <= -1)
       => LET s == last'.line
              n == -last'.delta
          IN  /\ \A k \in CachedBefore :
                    \/ k >= s /\ k < s + n
                    \/ EntryMoved(k, IF k < s THEN k ELSE k - n)
              /\ \A j \in CachedAfter :
                    \/ j < s /\ j \in CachedBefore
                    \/ j >= s /\ (j + n) \in CachedBefore]_vars

\* A delete has left entries on both sides of the deleted lines.
C7_Witness ==
    /\ last.op = "Delete"
    /\ last.delta <= -1
    /\ \E j \in DOMAIN state.token_cache : j < last.line
    /\ \E j \in DOMAIN state.token_cache : j >= last.line

\* C8: an insert of 0 lines and a delete of 0 lines leave the token cache, the
\* validity map, the dirty set, the queue and the in-progress set as they were.
C8_ZeroLinesChangeNothing ==
    [][(Stepped /\ last'.op \in {"Insert", "Delete"} /\ last'.delta = 0)
       => /\ state'.token_cache = state.token_cache
          /\ state'.cache_validity = state.cache_validity
          /\ state'.dirty_lines = state.dirty_lines
          /\ state'.background_queue = state.background_queue
          /\ state'.background_in_progress = state.background_in_progress]_vars

\* A notification of 0 lines has reached a state with a cache entry and a
\* viewport.
C8_Witness ==
    /\ last.op \in {"Insert", "Delete"}
    /\ last.delta = 0
    /\ DOMAIN state.token_cache # {}
    /\ state.viewport # NoViewport

\* The step is a highlight_line call on the line and content of the call before.
RepeatedHighlight ==
    /\ Stepped
    /\ last.op = "highlight_line"
    /\ last'.op = "highlight_line"
    /\ last'.line = last.line
    /\ last'.content = last.content

\* The second of two equal calls returns the spans of the first and is counted
\* as one cache hit and no miss.
SecondCallHits ==
    /\ last'.ret = last.ret
    /\ state'.metrics.cache_hits = state.metrics.cache_hits + 1
    /\ state'.metrics.cache_misses = state.metrics.cache_misses

\* C9, as stated: two consecutive highlight_line calls with the same line
\* number and content return the same spans, and the second is one cache hit
\* and no miss.
C9_SecondCallAlwaysHits == [][RepeatedHighlight => SecondCallHits]_vars

\* C9, amended: the same, for an enabled state and service, a line within
\* max_line_length, and a first call that was a hit or finished within
\* line_timeout, which is when it leaves the line cached under the content's
\* hash.
C9_SecondCallHitsWhenCached ==
    [][(/\ RepeatedHighlight
        /\ state.enabled /\ service.enabled
        /\ Len(last'.content) <= service.max_line_length
        /\ has_cached_tokens(state, last'.line, calculate_line_hash(last'.content)))
       => SecondCallHits]_vars

\* Two highlight_line calls in a row, the second a hit.
C9_Witness ==
    /\ calls = 2
    /\ last.op = "highlight_line"
    /\ state.metrics.cache_misses = 1
    /\ state.metrics.cache_hits = 1

CacheValid(L, c) ==
    /\ L \in DOMAIN state.token_cache
    /\ L \in DOMAIN state.cache_validity
    /\ state.cache_validity[L] = calculate_line_hash(c)

\* The step is a highlight_line call.
HighlightStep == Stepped /\ last'.op = "highlight_line"

\* The step is a highlight_line call that reaches the tokenizer.
TokenizeStep ==
    /\ HighlightStep
    /\ state.enabled /\ service.enabled
    /\ Len(last'.content) <= service.max_line_length
    /\ ~CacheValid(last'.line, last'.content)

\* One span of no kind over the whole of line c.
PlainSpan(c) ==
    <<[text |-> c, kind |-> NoKind, start_offset |-> 0, end_offset |-> Len(c)]>>

\* The counters record_line_highlight maintains.
LineTimeCounters(m) ==
    <<m.total_time, m.lines_highlighted, m.tokens_generated,
      m.avg_time_per_line, m.max_line_time>>

\* The step left both cache maps as they were.
CacheUnchanged ==
    /\ state'.token_cache = state.token_cache
    /\ state'.cache_validity = state.cache_validity

\* The step stored the spans it returned at its line, under its content's hash.
CachedReturned ==
    /\ last'.line \in DOMAIN state'.token_cache
    /\ state'.token_cache[last'.line] = last'.ret
    /\ last'.line \in DOMAIN state'.cache_validity
    /\ state'.cache_validity[last'.line] = calculate_line_hash(last'.content)

\* C11: a highlight_line call whose tokenize call takes longer than
\* line_timeout returns one plain span over the whole line, writes nothing to
\* the cache and leaves the line-time counters of the state and of the service
\* unchanged.
C11_TimeoutFallsBackUncached ==
    [][(TokenizeStep /\ last'.n > service.line_timeout)
       => /\ last'.ret = PlainSpan(last'.content)
          /\ CacheUnchanged
          /\ LineTimeCounters(state'.metrics) = LineTimeCounters(state.metrics)
          /\ LineTimeCounters(service'.global_metrics)
                = LineTimeCounters(service.global_metrics)]_vars

\* A call timed out on a line that an earlier call had cached under other
\* content; the earlier entry is still the only one.
C11_Witness ==
    /\ calls = 2
    /\ last.op = "highlight_line"
    /\ last.n > service.line_timeout
    /\ last.ret = PlainSpan(last.content)
    /\ state.metrics.cache_misses = 2
    /\ state.metrics.lines_highlighted = 1
    /\ DOMAIN state.token_cache = {last.line}

\* C12, as stated (for tokenize calls that take measurable time): with
\* line_timeout 0 every highlight_line call on an enabled state returns the
\* single plain span, whatever the cache held.
C12_ZeroDeadlineAlwaysPlain ==
    [][(/\ HighlightStep
        /\ state.enabled
        /\ service.line_timeout = 0
        /\ last'.n > 0)
       => last'.ret = PlainSpan(last'.content)]_vars

\* C12, amended: with line_timeout 0 a highlight_line call on an enabled state
\* returns the cached spans when the service is enabled, the line is within
\* the length budget and the cache holds it under the content's hash;
\* otherwise it returns the single plain span and caches nothing, except that
\* a tokenize call measuring no elapsed time is not over the deadline and is
\* cached as usual.
C12_ZeroDeadlinePlainUnlessCached ==
    [][(HighlightStep /\ state.enabled /\ service.line_timeout = 0)
       => IF /\ service.enabled
             /\ Len(last'.content) <= service.max_line_length
             /\ CacheValid(last'.line, last'.content)
          THEN last'.ret = state.token_cache[last'.line] /\ CacheUnchanged
          ELSE IF TokenizeStep /\ last'.n = 0
          THEN CachedReturned
          ELSE last'.ret = PlainSpan(last'.content) /\ CacheUnchanged]_vars

\* With line_timeout 0, a call was served from the cache.
C12_Witness ==
    /\ service.line_timeout = 0
    /\ last.op = "highlight_line"
    /\ last.n > 0
    /\ state.metrics.cache_hits = 1
    /\ last.ret # PlainSpan(last.content)

\* C13: a line of exactly max_line_length bytes is tokenized and cached like a
\* shorter one; a line of more bytes makes highlight_line return the single
\* plain span and leaves the cache and every counter unchanged.
C13_LengthBudgetIsInclusive ==
    [][HighlightStep
       => /\ (/\ TokenizeStep
              /\ Len(last'.content) = service.max_line_length
              /\ last'.n <= service.line_timeout)
             => /\ last'.ret = adapter_highlight_line(last'.content)
                /\ CachedReturned
          /\ Len(last'.content) > service.max_line_length
             => /\ last'.ret = PlainSpan(last'.content)
                /\ state' = state
                /\ service' = service]_vars

\* A line of exactly max_line_length bytes has been cached.
C13_Witness ==
    /\ last.op = "highlight_line"
    /\ Len(last.content) = service.max_line_length
    /\ last.line \in DOMAIN state.cache_validity
    /\ state.cache_validity[last.line] = calculate_line_hash(last.content)
    /\ state.metrics.lines_highlighted = 1

\* C14: with the state or the service disabled, highlight_line returns exactly
\* one span of no kind, whose text is the line and whose offsets are
\* [0, byte length), and changes nothing in the state.
C14_DisabledReturnsPlainSpan ==
    [][(HighlightStep /\ (~state.enabled \/ ~service.enabled))
       => /\ last'.ret = PlainSpan(last'.content)
          /\ state' = state
          /\ service' = service]_vars

\* The service was disabled after a line had been cached, and a call for that
\* line returned the plain span.
C14_Witness ==
    /\ last.op = "highlight_line"
    /\ ~service.enabled
    /\ state.enabled
    /\ last.line \in DOMAIN state.token_cache
    /\ last.ret = PlainSpan(last.content)
    /\ state.token_cache[last.line] # last.ret

\* C15, as stated: highlight_line called with an empty line returns an empty
\* span list in every configuration.
C15_EmptyLineAlwaysNoSpans ==
    [][(HighlightStep /\ last'.content = <<>>) => last'.ret = <<>>]_vars

\* C15, amended: highlight_line called with an empty line returns an empty
\* span list when the state and the service are enabled and the call is a
\* cache hit or its tokenize call finishes within line_timeout; with the state
\* or the service disabled, or the deadline exceeded, it returns one plain
\* span of empty text and offsets [0, 0).
C15_EmptyLineNoSpansWhenTokenized ==
    [][(HighlightStep /\ last'.content = <<>>)
       => IF \/ ~state.enabled
             \/ ~service.enabled
             \/ TokenizeStep /\ last'.n > service.line_timeout
          THEN last'.ret = PlainSpan(<<>>)
          ELSE last'.ret = <<>>]_vars

\* An empty line was served from the cache, as an empty span list.
C15_Witness ==
    /\ last.op = "highlight_line"
    /\ last.content = <<>>
    /\ last.ret = <<>>
    /\ state.metrics.cache_hits = 1

\* C16: with a viewport set, update_viewport(start, end) with both endpoints
\* within 4 lines of the stored ones leaves the viewport and the queue as they
\* were; with an endpoint 5 or more lines away, or no viewport set, the
\* viewport becomes (start, end) and the queue is rebuilt from it.
C16_ViewportHysteresis ==
    [][(Stepped /\ last'.op = "update_viewport")
       => LET start == last'.line
              end == last'.n
              near(a, b) == a - b <= 4 /\ b - a <= 4
          IN  IF /\ state.viewport # NoViewport
                 /\ near(start, state.viewport[1])
                 /\ near(end, state.viewport[2])
              THEN /\ state'.background_queue = state.background_queue
                   /\ state'.viewport = state.viewport
              ELSE /\ state'.viewport = <<start, end>>
                   /\ state'.background_queue =
                        rebuild_background_queue(
                            [state EXCEPT !.viewport = <<start, end>>]
                        ).background_queue]_vars

\* A call moving the first line by exactly 4 was ignored.
C16_Witness ==
    /\ last.op = "update_viewport"
    /\ state.viewport # NoViewport
    /\ state.viewport # <<last.line, last.n>>
    /\ last.line - state.viewport[1] = 4

\* The step is a highlight_background_batch call; last'.provider is the line
\* provider it was given and last'.durations the tokenize time of each line.
BatchStep == Stepped /\ last'.op = "highlight_background_batch"

\* The lines the call pops: the first min(batch size, queue length) lines of
\* the queue, and none when the state or the service is disabled.
Popped ==
    IF state.enabled /\ service.enabled
    THEN {state.background_queue[i] :
            i \in 1..Min(state.background_batch_size, Len(state.background_queue))}
    ELSE {}

\* C17: when highlight_background_batch returns, none of the lines it popped is
\* in the in-progress set.
C17_PoppedLinesLeaveInProgress ==
    [][BatchStep => Popped \cap state'.background_in_progress = {}]_vars

\* A call popped two lines, one without content and one that timed out, and
\* the in-progress set is empty.
C17_Witness ==
    /\ last.op = "highlight_background_batch"
    /\ state.enabled /\ service.enabled
    /\ \E l \in DOMAIN last.provider : last.provider[l] = NoContent
    /\ \E l \in DOMAIN last.provider :
          /\ last.provider[l] # NoContent
          /\ last.durations[l] > service.line_timeout \div 2
    /\ state.background_in_progress = {}

\* The popped lines the call writes: content available, within the length
\* budget, not cached under the content's hash, tokenized within half the
\* deadline.
Written ==
    {l \in Popped :
        /\ last'.provider[l] # NoContent
        /\ Len(last'.provider[l][1]) <= service.max_line_length
        /\ ~CacheValid(l, last'.provider[l][1])
        /\ last'.durations[l] <= service.line_timeout \div 2}

\* The call returns the number of lines it wrote, wrote exactly the lines of
\* Written, each with the hash of its fetched content, and left every other
\* entry as it was.
CountsWrites ==
    /\ last'.ret = Cardinality(Written)
    /\ DOMAIN state'.token_cache = DOMAIN state.token_cache \cup Written
    /\ DOMAIN state'.cache_validity = DOMAIN state.cache_validity \cup Written
    /\ \A l \in Written :
          /\ state'.cache_validity[l] = calculate_line_hash(last'.provider[l][1])
          /\ state'.token_cache[l] = adapter_highlight_line(last'.provider[l][1])
    /\ \A l \in DOMAIN state.token_cache \ Written :
          state'.token_cache[l] = state.token_cache[l]
    /\ \A l \in DOMAIN state.cache_validity \ Written :
          state'.cache_validity[l] = state.cache_validity[l]

\* The first min(batch size, queue length) lines of the queue.
QueueHead ==
    {state.background_queue[i] :
        i \in 1..Min(state.background_batch_size, Len(state.background_queue))}

\* The cache is empty, the provider has content for every line and no
\* tokenize call is over half the deadline.
EasyBatch ==
    /\ DOMAIN state.token_cache = {}
    /\ \A l \in DOMAIN last'.provider :
          last'.provider[l] # NoContent /\ last'.durations[l] <= service.line_timeout \div 2

Contiguous(S, n) ==
    S # <<>> =>
        /\ S[1].start_offset = 0
        /\ S[Len(S)].end_offset = n
        /\ \A i \in 1..Len(S) :
              /\ S[i].end_offset = S[i].start_offset + Len(S[i].text)
              /\ i < Len(S) => S[i].end_offset = S[i + 1].start_offset

\* C19: every span list in the cache is contiguous and ends at the byte length
\* of the line it was tokenized from, the line whose hash is stored with it.
C19_CachedSpansContiguous ==
    \A L \in DOMAIN state.token_cache :
        /\ L \in DOMAIN state.cache_validity
        /\ \E c \in Contents :
              /\ state.cache_validity[L] = calculate_line_hash(c)
              /\ Contiguous(state.token_cache[L], Len(c))

\* The cache holds a list of two spans.
C19_Witness ==
    \E L \in DOMAIN state.token_cache : Len(state.token_cache[L]) = 2

\* The counters that only grow.
Counters(m) ==
    <<m.lines_highlighted, m.tokens_generated, m.total_time, m.max_line_time,
      m.cache_hits, m.cache_misses>>

NonDecreasing(m, n) ==
    \A i \in DOMAIN Counters(m) : Counters(m)[i] <= Counters(n)[i]

AllZero(m) == \A i \in DOMAIN Counters(m) : Counters(m)[i] = 0

\* C20: no call lowers a counter of the state's metrics or of the service's
\* global metrics, except a reset, which sets all counters of the metrics it
\* is called on to zero.
C20_CountersMonotonic ==
    [][Stepped
       => /\ IF last'.op = "metrics.reset"
             THEN AllZero(state'.metrics)
             ELSE NonDecreasing(state.metrics, state'.metrics)
          /\ IF last'.op = "reset_metrics"
             THEN AllZero(service'.global_metrics)
             ELSE NonDecreasing(service.global_metrics, service'.global_metrics)]_vars

\* The service's counters were reset after a line had been tokenized.
C20_Witness ==
    /\ last.op = "reset_metrics"
    /\ state.metrics.lines_highlighted >= 1
    /\ AllZero(service.global_metrics)

\* The counters a document state and the service's aggregate both carry.
MirroredCounters(m) ==
    <<m.lines_highlighted, m.tokens_generated, m.cache_hits, m.cache_misses>>

\* C21: starting from a fresh service and with no reset, after any sequence of
\* highlight_line calls each of the four counters of the service's global
\* metrics equals the sum of the same counter over the document states the
\* service has served; the behaviours checked serve one document state, so the
\* sum is that state's counter.
C21_GlobalMirrorsStates ==
    MirroredCounters(service.global_metrics) = MirroredCounters(state.metrics)

\* Path p has extension e up to letter case: p ends in a dot that follows a
\* character of the file name, and then a spelling of e with no dot and no
\* separator in it.
HasExtension(p, e) ==
    \E i \in 2..Len(p) :
        /\ p[i] = "."
        /\ p[i - 1] # "/"
        /\ \A j \in (i + 1)..Len(p) : p[j] \notin {".", "/"}
        /\ Str(to_lowercase(SubSeq(p, i + 1, Len(p)))) = e

\* The language the extension table gives for p, PlainText when it gives none.
TableLanguage(p) ==
    IF \E e \in DOMAIN EXTENSION_MAP : HasExtension(p, e)
    THEN EXTENSION_MAP[CHOOSE e \in DOMAIN EXTENSION_MAP : HasExtension(p, e)]
    ELSE PlainText

\* C22: detect_language(path) returns the override registered for exactly
\* this path when there is one, otherwise the language of the extension table
\* for the path's extension compared case-insensitively, otherwise PlainText;
\* an override registered for a path that differs from it in letter case only
\* does not apply.
C22_DetectOverrideThenExtension ==
    [][(Stepped /\ last'.op = "detect_language")
       => LET p == last'.path
          IN  /\ p \in DOMAIN detector.overrides
                 => last'.language = detector.overrides[p]
              /\ p \notin DOMAIN detector.overrides
                 => last'.language = TableLanguage(p)]_vars

\* Detection of a path went by its extension while another language was
\* registered for a path that differs from it in letter case only.
C22_Witness ==
    /\ last.op = "detect_language"
    /\ last.path \notin DOMAIN detector.overrides
    /\ last.language = "Rust"
    /\ \E q \in DOMAIN detector.overrides :
          /\ to_lowercase(q) = to_lowercase(last.path)
          /\ detector.overrides[q] = "Python"

\* The step is remove_language_override(p) right after
\* set_language_override(p, X); last.prior is the detector before the set.
RoundTrip ==
    /\ Stepped
    /\ last.op = "set_language_override"
    /\ last'.op = "remove_language_override"
    /\ last'.path = last.path

\* C23, as stated: after set_language_override(p, X) and
\* remove_language_override(p), detect_language returns for every path what it
\* returned before the set, whatever overrides were registered before.
C23_RoundTripRestoresDetect ==
    [][RoundTrip
       => \A q \in Paths :
             detect_language(detector', q) = detect_language(last.prior, q)]_vars

\* C23, amended: the pair leaves no override for p, so detect_language(p)
\* returns the language of the extension table, which is what it returned
\* before the set when p had no override then; it returns for every other
\* path what it returned before the set; the remove returns X.
C23_RoundTripRemovesOverride ==
    [][RoundTrip
       => LET p == last.path
          IN  /\ last'.language = last.language
              /\ p \notin DOMAIN detector'.overrides
              /\ detect_language(detector', p) = TableLanguage(p)
              /\ p \notin DOMAIN last.prior.overrides
                 => detect_language(detector', p) = detect_language(last.prior, p)
              /\ \A q \in Paths \ {p} :
                    detect_language(detector', q) = detect_language(last.prior, q)]_vars

\* An override was removed while an override for another path stays.
C23_Witness ==
    /\ last.op = "remove_language_override"
    /\ last.language \in OverrideLanguages
    /\ last.path \in DOMAIN last.prior.overrides
    /\ last.path \notin DOMAIN detector.overrides
    /\ DOMAIN detector.overrides # {}

\* What a lookup of buffer b finds in registry reg: the handle bound to b, or
\* nothing.
Lookup(reg, b) == IF b \in DOMAIN reg THEN <<reg[b]>> ELSE <<>>

\* C24: a lookup of a buffer finds the handle most recently registered for it
\* if it has not been unregistered or cleared since, and nothing otherwise
\* (register binds its buffer to its handle, unregister and clear-all unbind,
\* and no call changes what a lookup of any other buffer finds);
\* get_line_tokens returns None exactly when the lookup finds no binding or the
\* bound state is disabled, and then changes no state.
C24_RegistryLookupAndNone ==
    [][Stepped
       => LET b == last'.buffer_id
              others == Buffers \ {b}
              kept(B) == \A c \in B : Lookup(registry', c) = Lookup(registry, c)
          IN  /\ last'.op = "register_buffer_highlighting"
                 => Lookup(registry', b) = <<last'.handle>> /\ kept(others)
              /\ last'.op = "unregister_buffer_highlighting"
                 => Lookup(registry', b) = <<>> /\ kept(others)
              /\ last'.op = "clear_all_highlighting_associations"
                 => \A c \in Buffers : Lookup(registry', c) = <<>>
              /\ last'.op \notin {"register_buffer_highlighting",
                                  "unregister_buffer_highlighting",
                                  "clear_all_highlighting_associations"}
                 => kept(Buffers)
              /\ last'.op = "get_buffer_highlighting"
                 => last'.ret = Lookup(registry, b)
              /\ last'.op = "get_line_tokens"
                 => LET none == \/ Lookup(registry, b) = <<>>
                                \/ ~documents[registry[b]].enabled
                    IN  /\ last'.ret = <<>> <=> none
                        /\ none => /\ documents' = documents
                                   /\ service' = service
                                   /\ registry' = registry]_vars

\* get_line_tokens returned None for a buffer bound to a disabled state, the
\* second handle registered for it.
C24_Witness ==
    /\ calls = 3
    /\ last.op = "get_line_tokens"
    /\ last.ret = <<>>
    /\ last.buffer_id \in DOMAIN registry
    /\ registry[last.buffer_id] = 2
    /\ ~documents[2].enabled

\* The step is an insert notification of at least one line, and a delete
\* notification of at least one line.
InsertStep == Stepped /\ last'.op = "Insert" /\ last'.delta >= 1

DeleteStep == Stepped /\ last'.op = "Delete" /\ last'.delta <= -1

\* C25: after an insert at start_line of n >= 1 lines, every line of the
\* inclusive range [start_line, start_line + n] is in the dirty set.
C25_InsertMarksInclusiveRange ==
    [][InsertStep
       => \A k \in last'.line..(last'.line + last'.delta) :
             k \in state'.dirty_lines]_vars

\* Line numbers an insert can move a line of the model to.
ShiftedLines == 0..(MaxLine + MaxDelta)

\* C26: after an insert at s of n >= 1 lines, a line k < s is dirty iff it was
\* dirty before and a line k >= s + n is dirty iff k - n was dirty before;
\* after a delete at s of n >= 1 lines, a line k < s is dirty iff it was dirty
\* before and a line k > s is dirty iff k + n was dirty before.
C26_DirtySetShifts ==
    [][/\ InsertStep
          => LET s == last'.line
                 n == last'.delta
             IN  \A k \in ShiftedLines :
                    /\ k < s => (k \in state'.dirty_lines <=> k \in state.dirty_lines)
                    /\ k >= s + n
                       => (k \in state'.dirty_lines <=> (k - n) \in state.dirty_lines)
       /\ DeleteStep
          => LET s == last'.line
                 n == -last'.delta
             IN  \A k \in ShiftedLines :
                    /\ k < s => (k \in state'.dirty_lines <=> k \in state.dirty_lines)
                    /\ k > s
                       => (k \in state'.dirty_lines <=> (k + n) \in state.dirty_lines)]_vars

\* An insert has moved a dirty line down past the inserted lines and left one
\* above them.
C26_Witness ==
    /\ last.op = "Insert"
    /\ last.delta >= 1
    /\ \E k \in state.dirty_lines : k >= last.line + last.delta
    /\ \E k \in state.dirty_lines : k < last.line

\* C27: after a delete at start_line of n >= 1 lines, start_line is in the
\* dirty set, the in-progress set has no line of [start_line, start_line + n)
\* and still has, under the same number, every line it had outside that range.
C27_DeleteDropsInProgress ==
    [][DeleteStep
       => LET s == last'.line
              n == -last'.delta
          IN  /\ s \in state'.dirty_lines
              /\ \A l \in s..(s + n - 1) : l \notin state'.background_in_progress
              /\ \A l \in state.background_in_progress :
                    (l < s \/ l >= s + n) => l \in state'.background_in_progress
              /\ state'.background_in_progress \subseteq state.background_in_progress]_vars

\* A delete has left a line below the deleted lines in the in-progress set.
C27_Witness ==
    /\ last.op = "Delete"
    /\ last.delta <= -1
    /\ last.line \in state.dirty_lines
    /\ \E l \in state.background_in_progress : l >= last.line - last.delta

\* State st with the lines s..e marked dirty and their cache entries dropped.
MarkedAndInvalidated(st, s, e) ==
    [st EXCEPT !.dirty_lines = @ \cup (s..e),
               !.token_cache = [k \in (DOMAIN @) \ (s..e) |-> @[k]],
               !.cache_validity = [k \in (DOMAIN @) \ (s..e) |-> @[k]]]

\* The sequence a Replace is said to stand for: mark and invalidate
\* [start_line, end_line], then insert or delete at end_line by the sign of
\* line_delta.
ReplaceSequence(st, start_line, end_line, line_delta) ==
    LET marked == MarkedAndInvalidated(st, start_line, end_line)
    IN  IF line_delta > 0 THEN handle_text_insert(marked, end_line, line_delta)
        ELSE IF line_delta < 0 THEN handle_text_delete(marked, end_line, -line_delta)
        ELSE marked

\* C28: a Replace notification (start_line, end_line, line_delta) leaves the
\* state the sequence leaves: mark [start_line, end_line] dirty and invalidate
\* those entries, then insert at end_line of line_delta lines if line_delta > 0
\* or delete at end_line of |line_delta| lines if line_delta < 0; a Multiple
\* notification with the same fields leaves the state the Replace leaves.
C28_ReplaceIsMarkThenShift ==
    [][(Stepped /\ last'.op \in {"Replace", "Multiple"})
       => /\ state' = ReplaceSequence(state, last'.line, last'.n, last'.delta)
          /\ state' = notify(state, notification_replace(last'.line, last'.n,
                                                         last'.delta))]_vars

\* A Multiple notification over two lines that removes a line has left a
\* cache entry below them.
C28_Witness ==
    /\ last.op = "Multiple"
    /\ last.line < last.n
    /\ last.delta < 0
    /\ \E k \in DOMAIN state.token_cache : k >= last.n
    /\ state.viewport # NoViewport

\* The lines around the stored viewport of st that a rebuild looks at:
\* [start - lookahead, start), cut at line 0, and [end, end + lookahead).
Window(st) ==
    (saturating_sub(st.viewport[1], st.background_lookahead)..(st.viewport[1] - 1))
    \cup (st.viewport[2]..(st.viewport[2] + st.background_lookahead - 1))

\* The step rebuilds the queue: update_viewport with no viewport set or an
\* endpoint moved by 5 or more lines, a lookahead change, or an insert or a
\* delete of at least one line, the last three with a viewport set.
RebuildStep ==
    /\ Stepped
    /\ \/ /\ last'.op = "update_viewport"
          /\ \/ state.viewport = NoViewport
             \/ abs_diff(last'.line, state.viewport[1]) >= 5
             \/ abs_diff(last'.n, state.viewport[2]) >= 5
       \/ /\ last'.op \in {"set_background_lookahead", "Insert", "Delete"}
          /\ last'.op \in {"Insert", "Delete"} => last'.delta # 0
          /\ state.viewport # NoViewport

\* C29: right after a rebuild the queue holds exactly the lines of the two
\* ranges around the stored viewport that have no cache entry and are not in
\* the in-progress set; a line with a cache entry is left out whatever hash is
\* stored with it.
C29_RebuiltQueueIsWindowMinusCached ==
    [][RebuildStep
       => SeqToSet(state'.background_queue)
             = {k \in Window(state') :
                   /\ k \notin DOMAIN state'.token_cache
                   /\ k \notin state'.background_in_progress}]_vars

\* An insert has rebuilt the queue with a cached line of the window left out.
C29_Witness ==
    /\ last.op = "Insert"
    /\ last.delta >= 1
    /\ state.viewport # NoViewport
    /\ state.background_queue # <<>>
    /\ \E k \in Window(state) : k \in DOMAIN state.token_cache

\* The distances line l can have from the stored viewport (start, end) of st:
\* start - l when it is above start, l - end + 1 when it is at or below end
\* (one of the two when start <= end).
Distances(st, l) ==
    (IF l < st.viewport[1] THEN {st.viewport[1] - l} ELSE {})
    \cup (IF l >= st.viewport[2] THEN {l - st.viewport[2] + 1} ELSE {})

\* C30: in every reachable state the queue is in order of non-decreasing
\* distance from the stored viewport.
C30_QueueNearestFirst ==
    state.background_queue # <<>> =>
        /\ state.viewport # NoViewport
        /\ \E d \in [DOMAIN state.background_queue -> 1..state.background_lookahead] :
              /\ \A i \in DOMAIN d : d[i] \in Distances(state, state.background_queue[i])
              /\ \A i \in DOMAIN d : i > 1 => d[i - 1] <= d[i]

\* After a batch was taken the queue still holds a line above the viewport
\* followed by a line below it.
C30_Witness ==
    /\ last.op = "get_background_batch"
    /\ state.viewport # NoViewport
    /\ state.viewport[1] <= state.viewport[2]
    /\ Len(state.background_queue) >= 2
    /\ state.background_queue[1] < state.viewport[1]
    /\ state.background_queue[2] >= state.viewport[2]

\* The step is a get_background_batch call; last'.ret is the Vec it returns.
TakeStep == Stepped /\ last'.op = "get_background_batch"

\* C31: get_background_batch returns the first min(batch size, queue length)
\* lines of the queue in queue order, removes exactly those from the front of
\* the queue and adds exactly those to the in-progress set; it never returns
\* more than batch size lines.
C31_BatchIsQueueFront ==
    [][TakeStep
       => LET queue == state.background_queue
              k == IF state.background_batch_size < Len(queue)
                   THEN state.background_batch_size ELSE Len(queue)
          IN  /\ Len(last'.ret) = k
              /\ \A i \in 1..k : last'.ret[i] = queue[i]
              /\ Len(state'.background_queue) = Len(queue) - k
              /\ \A i \in 1..(Len(queue) - k) :
                    state'.background_queue[i] = queue[i + k]
              /\ state'.background_in_progress
                    = state.background_in_progress \cup {queue[i] : i \in 1..k}
              /\ Len(last'.ret) <= state.background_batch_size]_vars

\* A batch as long as the batch size was taken from a longer queue: lines are
\* left in the queue and the lines returned are in progress.
C31_Witness ==
    /\ last.op = "get_background_batch"
    /\ Len(last.ret) = state.background_batch_size
    /\ state.background_queue # <<>>
    /\ \A i \in DOMAIN last.ret : last.ret[i] \in state.background_in_progress

\* The step is a highlight_line call on an enabled state and service, for a
\* line within the length budget, that is served from the cache or whose
\* tokenize call returns within the deadline.
InTimeStep ==
    /\ HighlightStep
    /\ state.enabled /\ service.enabled
    /\ Len(last'.content) <= service.max_line_length
    /\ CacheValid(last'.line, last'.content) \/ last'.n <= service.line_timeout

\* C32: whatever edit notifications, dirty marks, viewport updates, background
\* passes and highlight_line calls came before, a highlight_line call on an
\* enabled state, for a line within the length budget and finishing within the
\* deadline, returns the spans the tokenizer produces for the content passed:
\* what the same service returns from a state with an empty cache.
C32_CacheIsTransparent ==
    [][InTimeStep
       => /\ last'.ret = adapter_highlight_line(last'.content)
          /\ last'.n <= service.line_timeout
             => last'.ret = highlight_line(service, clear_cache(state),
                                           last'.content, last'.line, last'.n).tokens]_vars

\* A highlight_line call was served an entry that a background pass wrote: the
\* state counts a hit and never tokenized a line in the foreground.
C32_Witness ==
    /\ last.op = "highlight_line"
    /\ last.content # <<>>
    /\ state.viewport # NoViewport
    /\ state.metrics.cache_hits = 1
    /\ state.metrics.cache_misses = 0
    /\ last.line \in DOMAIN state.token_cache
    /\ last.ret = state.token_cache[last.line]

\* C33: in every reachable state the token map and the validity-hash map have
\* exactly the same line numbers as keys.
C33_CacheMapsShareKeys ==
    DOMAIN state.token_cache = DOMAIN state.cache_validity

\* An insert has moved a cache entry down: the cache holds a line at or below
\* the end of the inserted lines, and both maps hold its key.
C33_Witness ==
    /\ last.op = "Insert"
    /\ last.delta >= 1
    /\ \E k \in DOMAIN state.token_cache :
          /\ k >= last.line + last.delta
          /\ k \in DOMAIN state.cache_validity

\* The step is a background pass on an enabled state and service with work
\* queued.
DrainStep ==
    /\ BatchStep
    /\ state.enabled /\ service.enabled
    /\ has_background_work(state)

\* The number of lines a pass pops.
PoppedCount ==
    IF state.background_batch_size < Len(state.background_queue)
    THEN state.background_batch_size ELSE Len(state.background_queue)

\* C34: with the state and the service enabled, each background pass on a
\* non-empty queue shortens the queue by min(batch size, queue length), which
\* is at least 1, and leaves the rest of the queue as it was, no line queued
\* again; a popped line the pass did not write is cached after the pass exactly
\* when it was before, so a skipped or timed-out line stays uncached; and with
\* no viewport update, lookahead change or edit coming in between, the passes
\* of the idle loop leave has_background_work false for good.
C34_PassesDrainQueue ==
    /\ [][DrainStep
          => /\ PoppedCount >= 1
             /\ Len(state'.background_queue)
                   = Len(state.background_queue) - PoppedCount
             /\ \A i \in 1..Len(state'.background_queue) :
                   state'.background_queue[i]
                      = state.background_queue[i + PoppedCount]
             /\ \A l \in Popped \ Written :
                   (l \in DOMAIN state'.token_cache)
                      = (l \in DOMAIN state.token_cache)]_vars
    /\ <>[](~has_background_work(state))

\* The idle loop has emptied the queue with a pass that popped a line it could
\* not cache: the line is neither cached nor queued nor in progress.
C34_Witness ==
    /\ last.op = "highlight_background_batch"
    /\ ~has_background_work(state)
    /\ calls > MaxCalls
    /\ \E l \in DOMAIN last.provider :
          /\ last.provider[l] = NoContent \/ last.durations[l] > service.line_timeout \div 2
          /\ l \notin DOMAIN state.token_cache
          /\ l \notin state.background_in_progress

\* The step is an Insert or Delete notification of no lines for one line, as
\* single_line builds it and notify_edit_operation sends it for an edit inside
\* a line.
SingleLineStep ==
    /\ Stepped
    /\ last'.op \in {"Insert", "Delete"}
    /\ last'.delta = 0
    /\ last'.n = last'.line

\* C35: an Insert or Delete notification whose line_delta is 0 leaves the whole
\* document state as it was: the edited line is dirty after it only if it was
\* before, and a cache entry of the line is kept.
C35_SingleLineEditChangesNothing ==
    [][SingleLineStep
       => /\ state' = state
          /\ is_line_dirty(state', last'.line) = is_line_dirty(state, last'.line)
          /\ has_valid_cache(state, last'.line) => has_valid_cache(state', last'.line)]_vars

\* An edit inside a line that holds a cache entry was reported: the entry is
\* still there and the line is not dirty.
C35_Witness ==
    /\ last.op \in {"Insert", "Delete"}
    /\ last.delta = 0
    /\ last.n = last.line
    /\ has_valid_cache(state, last.line)
    /\ ~is_line_dirty(state, last.line)

\* The entries of map m at every line but line_number.
OtherEntries(m, line_number) ==
    [k \in (DOMAIN m) \ {line_number} |-> m[k]]

C37_BackgroundPassFrame ==
    [][BatchStep
       => /\ state'.metrics = state.metrics
          /\ service' = service
          /\ state'.dirty_lines = state.dirty_lines
          /\ state'.needs_full_rehighlight = state.needs_full_rehighlight
          /\ state'.viewport = state.viewport
          /\ [state' EXCEPT !.token_cache = state.token_cache,
                            !.cache_validity = state.cache_validity,
                            !.background_queue = state.background_queue,
                            !.background_in_progress = state.background_in_progress]
                = state
          /\ \A k \in (DOMAIN state.token_cache \cup DOMAIN state'.token_cache) \ Popped :
                /\ k \in DOMAIN state.token_cache
                /\ k \in DOMAIN state'.token_cache
                /\ state'.token_cache[k] = state.token_cache[k]
          /\ \A k \in (DOMAIN state.cache_validity \cup DOMAIN state'.cache_validity) \ Popped :
                /\ k \in DOMAIN state.cache_validity
                /\ k \in DOMAIN state'.cache_validity
                /\ state'.cache_validity[k] = state.cache_validity[k]
          /\ (~state.enabled \/ ~service.enabled)
                => /\ last'.ret = 0
                   /\ state'.background_queue = state.background_queue
                   /\ state'.background_in_progress = state.background_in_progress
                   /\ state' = state]_vars

\* A background pass cached a line on a state and a service whose metrics had
\* counted a foreground call: the counters still show that one call only.
C37_Witness ==
    /\ last.op = "highlight_background_batch"
    /\ last.ret >= 1
    /\ state.metrics.cache_misses = 1
    /\ state.metrics.lines_highlighted = 1
    /\ service.global_metrics.lines_highlighted = 1
    /\ Cardinality(DOMAIN state.token_cache) >= 2

\* Line l is one of the lookahead lines above start_line or one of the
\* lookahead lines from end_line on.
NearViewport(l, start_line, end_line, lookahead) ==
    \/ l >= start_line - lookahead /\ l < start_line
    \/ l >= end_line /\ l < end_line + lookahead

\* C38: in every reachable state the lookahead is at most 200, and a non-empty
\* queue implies that a viewport is set and that every queued line lies in
\* [start - lookahead, start) or [end, end + lookahead) of the stored viewport
\* under the current lookahead; when start <= end no queued line lies inside
\* the viewport [start, end).
C38_QueueNearStoredViewport ==
    /\ state.background_lookahead <= 200
    /\ state.background_queue # <<>> =>
          /\ state.viewport # NoViewport
          /\ \A i \in DOMAIN state.background_queue :
                NearViewport(state.background_queue[i], state.viewport[1],
                             state.viewport[2], state.background_lookahead)
          /\ state.viewport[1] <= state.viewport[2] =>
                \A i \in DOMAIN state.background_queue :
                   ~(/\ state.background_queue[i] >= state.viewport[1]
                     /\ state.background_queue[i] < state.viewport[2])

\* The lookahead was changed with a viewport of at least one line set, and the
\* queue holds lines on both sides of it.
C38_Witness ==
    /\ last.op = "set_background_lookahead"
    /\ state.viewport # NoViewport
    /\ state.viewport[1] < state.viewport[2]
    /\ \E i \in DOMAIN state.background_queue :
          state.background_queue[i] < state.viewport[1]
    /\ \E i \in DOMAIN state.background_queue :
          state.background_queue[i] >= state.viewport[2]

\* The step is an update_viewport call; last'.line and last'.n are the
\* viewport it asks for.
ViewportStep == Stepped /\ last'.op = "update_viewport"

\* Lines a and b are fewer than 5 lines apart.
Within5(a, b) == a - b < 5 /\ b - a < 5

\* C39: right after any update_viewport(start, end) call a viewport is stored
\* that differs from (start, end) by fewer than 5 lines at each endpoint: it is
\* (start, end), or the viewport stored before when the call was ignored; so a
\* call that asks for a viewport 5 or more lines from the stored one stores it,
\* however small the move from the viewport the call before asked for.
C39_StoredViewportLagsUnderFive ==
    [][ViewportStep
       => /\ state'.viewport # NoViewport
          /\ Within5(state'.viewport[1], last'.line)
          /\ Within5(state'.viewport[2], last'.n)
          /\ \/ state'.viewport = <<last'.line, last'.n>>
             \/ state'.viewport = state.viewport
          /\ (/\ state.viewport # NoViewport
              /\ \/ ~Within5(state.viewport[1], last'.line)
                 \/ ~Within5(state.viewport[2], last'.n))
             => state'.viewport = <<last'.line, last'.n>>]_vars

\* A call that moved the last line of the viewport by 4 lines was ignored: the
\* stored viewport ends 4 lines from the one asked for.
C39_Witness ==
    /\ last.op = "update_viewport"
    /\ state.viewport # NoViewport
    /\ last.n - state.viewport[2] = 4
    /\ Within5(last.line, state.viewport[1])
    /\ calls >= 2

\* A background pass is inside the caller's get_line_content.
InFetch == IF frames = <<>> THEN FALSE ELSE Top.pc = "fetch"

\* A call made from inside get_line_content returns to it.
CompletesInFetch ==
    /\ InFetch
    /\ thread' = "running"
    /\ calls' = calls + 1
    /\ frames' = frames

\* Every call in progress has borrowed its state, and holds the service from
\* the moment it has taken it, get_line_content included.
HeldAcrossFetch ==
    \A i \in DOMAIN frames :
        /\ borrows[frames[i].handle] = "exclusive"
        /\ frames[i].pc # "lock" => service_lock = "held"

\* The service is taken by a call that has already borrowed its state.
BorrowBeforeLock ==
    (service_lock = "free" /\ service_lock' = "held")
        => /\ frames # <<>>
           /\ frames' # <<>>
           /\ Top.pc = "lock"
           /\ borrows[Top.handle] = "exclusive"

\* A call that returns leaves the service and its state free.
ReleasedOnReturn ==
    (Len(frames') < Len(frames) /\ thread' = "running")
        => /\ service_lock' = "free"
           /\ borrows'[Top.handle] = "free"

RegistryOps ==
    {"register_buffer_highlighting", "unregister_buffer_highlighting",
     "get_buffer_highlighting", "clear_all_highlighting_associations"}

\* C40 as stated: every bridge operation that uses both takes the exclusive
\* borrow of the state first and the service lock second and releases both
\* before it returns; process_background_highlighting holds both across every
\* call of get_line_content, so no bridge or notifier operation on the buffer
\* of the pass completes from inside get_line_content.
C40_NothingOnBufferCompletesInFetch ==
    /\ []HeldAcrossFetch
    /\ [][BorrowBeforeLock /\ ReleasedOnReturn]_vars
    /\ [][CompletesInFetch => last'.buffer_id # Top.buffer_id]_vars

\* C40, amended: the order, the release and the holding across get_line_content
\* are as stated. From inside get_line_content, an operation that needs the
\* state the pass has borrowed, or the service, does not complete. What does
\* complete there is: a registry operation, on any buffer; an operation on a
\* buffer that has no binding any more; and an operation on a buffer now bound
\* to another state than the borrowed one, if it needs no service
\* (notify_text_change, has_background_work) or the state is disabled. A nested
\* registry operation can rebind or unbind the buffer of the pass, so
\* operations on that very buffer are among them.
C40_BorrowedStateAndServiceRefuseInFetch ==
    /\ []HeldAcrossFetch
    /\ [][BorrowBeforeLock /\ ReleasedOnReturn]_vars
    /\ [][CompletesInFetch =>
            \/ last'.op \in RegistryOps
            \/ last'.buffer_id \notin DOMAIN registry
            \/ /\ registry[last'.buffer_id] # Top.handle
               /\ \/ last'.op \in {"notify_text_change", "has_background_work"}
                  \/ ~documents[registry[last'.buffer_id]].enabled]_vars

\* A call made from inside get_line_content was refused while the pass held
\* the service: the thread panicked and the mutex is poisoned.
C40_Witness ==
    /\ thread = "panicked"
    /\ service_lock = "poisoned"
    /\ frames = <<>>
    /\ \A h \in DOMAIN borrows : borrows[h] = "free"

====
